---- MODULE Spec2Model ----
(***************************************************************************)
(* Connection / presence / session coordination of the chat backend:       *)
(* the WebSocket controller (connection registry, presence broadcasts,     *)
(* message fan-out, timeout sweep), the session service (in-memory         *)
(* activity table), the HTTP authentication middleware and the chat        *)
(* service's message state transitions.                                    *)
(*                                                                         *)
(* Node.js runs one handler at a time; a handler gives up control only at  *)
(* an await on I/O.  Each action below is one run of a handler from one    *)
(* such suspension point to the next.                                      *)
(***************************************************************************)
EXTENDS Integers, Sequences, FiniteSets, TLC

\* ---------------------------------------------------------------- bounds
NumUsers == 3
MaxSockets == 2
MaxMessages == 2
MaxTime == 3
\* users and sockets taking part in the session specifications; the sockets
\* that send messages
NumSessionUsers == 2
NumSessionSockets == 1
\* config.session.timeoutMinutes is read from SESSION_TIMEOUT_MINUTES; the
\* model runs with a small value of it.
TimeoutMinutes == 2
MaxLiveTime == 9
MaxCleanupRuns == 1

Users == 1..NumUsers
SessionUsers == 1..NumSessionUsers
SessionSockets == 1..NumSessionSockets
Sockets == 1..MaxSockets
NoUser == 0
NoSocket == 0
NoTime == -1

VARIABLES
  \* WebSocketController registry (constructor)
  connectedUsers,   \* socketId -> userId of the socket data record
  userSockets,      \* userId -> set of socketIds
  socketUsers,      \* socketId -> userId
  \* Socket.IO sockets
  socketUserId,     \* socket.userId set by authenticateSocket
  transport,        \* "new" | "open" | "closed"
  connPc,           \* position of handleConnection(socket)
  discPc,           \* position of handleDisconnection(socket)
  handlers,         \* TRUE once setupEventHandlers(socket) has run
  rooms,            \* rooms the socket has joined
  \* SessionService
  activeSessions,   \* Map in insertion order: sequence of session records
  \* User collection
  dbStatus,         \* user.status
  dbLastActivityAt, \* user.sessionData.lastActivityAt
  \* presence events emitted so far
  onlineEmitted,    \* user-online broadcasts per user
  offlineEmitted,   \* user-offline broadcasts per user
  emptyTransitions, \* times the user's connection set went non-empty -> empty
  \* clock, in minutes
  now,
  \* session monitoring (startSessionMonitoring / checkSessionTimeouts)
  sweepDue,         \* the one-minute interval has elapsed, its callback has not run
  sweepRuns,        \* runs of checkSessionTimeouts suspended in their timeout loop
  warnRecv,         \* session-warning events received per socket
  timeoutRecv,      \* session-timeout events received per socket
  timedOut,         \* handleSessionTimeout has run for the user, no PIN re-entry since
  \* Message collection and the operations on it
  messages,         \* stored message documents; the messageId is the index
  sendOp,           \* position of handleSendMessage(socket, data), per socket
  msgRecv,          \* message-received events received per socket: <<messageId, status>>
  deliveredOp,      \* Message.updateMany of markMessagesAsDelivered in progress
  readOp,           \* Message.markConversationAsRead in progress
  sendCall,         \* a call of chatService.sendMessage: arguments, outcome
  deleteCall,       \* calls of chatService.deleteMessage per request: arguments, outcome
  deliveredRecv,    \* message-delivered events received per socket: messageIds
  \* other socket events
  typingRecv,       \* users shown as typing per socket (typing-start, typing-stop)
  statusOp,         \* position of handleUserStatus(socket, data), per socket
  statusRecv,       \* last user-status event received per socket: <<userId, status>>
  \* history
  lastTracked,      \* minute of the user's latest trackActivity, NoTime if none
  \* user documents: security and token version; authentication requests
  security,         \* userId -> security.{pinRetryCount, pinRetryWindow, isLocked, lockedUntil}
  refreshTokenVersion, \* userId -> sessionData.refreshTokenVersion
  issuedTokens,     \* tokens handed out so far: <<userId, tokenVersion>>
  pinOp,            \* position of a login / verify-pin request, per request
  logoutOp,         \* position of a logout request, per user
  forceLogoutRecv,  \* force-logout events received per socket
  \* SessionService cleanup timer (startCleanupTimer / cleanupInactiveSessions)
  cleanupDue,       \* the cleanup interval has elapsed, its callback has not run
  cleanupRuns,      \* runs of cleanupInactiveSessions suspended in their loop:
                    \* the user ids still to remove, the first one removed
  failedPins        \* userId -> the failed PIN attempts answered since the last
                    \* successful one: how many (n), and the minute of the first

regVars == <<connectedUsers, userSockets, socketUsers>>
sockVars == <<socketUserId, transport, connPc, discPc, handlers, rooms>>
presVars == <<onlineEmitted, offlineEmitted, emptyTransitions>>
dbUserVars == <<dbStatus, dbLastActivityAt>>

sweepVars == <<sweepDue, sweepRuns, warnRecv, timeoutRecv>>
msgVars == <<messages, sendOp, msgRecv, deliveredOp, readOp, sendCall, deleteCall,
            deliveredRecv, typingRecv, statusOp, statusRecv>>
authVars == <<security, refreshTokenVersion, issuedTokens, pinOp, logoutOp,
              forceLogoutRecv, failedPins>>

cleanVars == <<cleanupDue, cleanupRuns>>

vars == <<regVars, sockVars, presVars, dbUserVars, activeSessions, now,
          sweepVars, timedOut, msgVars, lastTracked, authVars, cleanVars>>

\* ------------------------------------------------------------ Map helpers
MapHas(m, k) == k \in DOMAIN m

MapSet(m, k, v) == [x \in (DOMAIN m) \cup {k} |-> IF x = k THEN v ELSE m[x]]

MapDelete(m, k) == [x \in (DOMAIN m) \ {k} |-> m[x]]

EmptyMap == [x \in {} |-> 0]

\* ------------------------------------------------ SessionService.activeSessions
SessionIndex(sessions, userId) ==
  IF \E i \in 1..Len(sessions) : sessions[i].userId = userId
  THEN CHOOSE i \in 1..Len(sessions) : sessions[i].userId = userId
  ELSE 0

SessionHas(sessions, userId) == SessionIndex(sessions, userId) # 0

SessionGet(sessions, userId) == sessions[SessionIndex(sessions, userId)]

\* Map.set: an existing key keeps its place, a new key goes last.
SessionSet(sessions, rec) ==
  IF SessionHas(sessions, rec.userId)
  THEN [sessions EXCEPT ![SessionIndex(sessions, rec.userId)] = rec]
  ELSE Append(sessions, rec)

\* Map.delete
SessionDelete(sessions, userId) ==
  SelectSeq(sessions, LAMBDA r : r.userId # userId)

trackActivity_clockReversed(sessions, userId, socketId, t) ==
  SessionSet(sessions, [userId |-> userId, lastActivity |-> MaxTime - t,
                        socketId |-> socketId])

\* trackActivity, in-memory part: the record is replaced whole, socketId
\* included (activityData.socketId || null), lastActivity is new Date().
trackActivity(sessions, userId, socketId, t) ==
  SessionSet(sessions, [userId |-> userId, lastActivity |-> t, socketId |-> socketId])

updateSocketId(sessions, userId, socketId) ==
  IF SessionHas(sessions, userId)
  THEN SessionSet(sessions, [SessionGet(sessions, userId) EXCEPT !.socketId = socketId])
  ELSE sessions

removeSocketId_endsSession(sessions, userId) ==
  IF SessionHas(sessions, userId)
  THEN IF SessionGet(sessions, userId).socketId = NoSocket
       THEN SessionDelete(sessions, userId)
       ELSE SessionSet(sessions, [SessionGet(sessions, userId) EXCEPT !.socketId = NoSocket])
  ELSE sessions

removeSocketId(sessions, userId) ==
  IF SessionHas(sessions, userId)
  THEN SessionSet(sessions, [SessionGet(sessions, userId) EXCEPT !.socketId = NoSocket])
  ELSE sessions

\* ------------------------------------------------------------------ rooms
\* A room name is `${roomType}:${roomId}`.
UserRoom(userId) == <<"user", userId>>

GroupRoom(groupId) == <<"group", groupId>>

\* A socket that is no longer connected receives nothing.
SocketsInRoom(room) == {s \in Sockets : transport[s] = "open" /\ room \in rooms[s]}

\* ------------------------------------------------- operations in progress
\* An id travels as a string of 24 hexadecimal digits whose letters may be
\* written in either case; the ids of the model have a letter among their
\* digits.  _id.toString() gives the lower-case spelling, and a cast to
\* ObjectId (findById, new Message) reads either spelling as the same id.
Spellings == {"lower", "upper"}

IdString(id, spelling) == [id |-> id, spelling |-> spelling]

toString(id) == IdString(id, "lower")

castObjectId(str) == str.id

\* an absent receiverId
NoId == IdString(NoUser, "lower")

IdStrings(ids) == {IdString(id, spelling) : id \in ids, spelling \in Spellings}

NoGroup == 0
Groups == {1}

\* handleSendMessage not running on the socket; emitted is the event its last
\* run left on the socket ("none" | "message-received" | "error").
IdleSend(emitted) ==
  [pc |-> "idle", receiverId |-> NoId, groupId |-> NoGroup,
    messageId |-> 0, emitted |-> emitted]

\* handleUserStatus not running on the socket; emitted is the event its last
\* run sent ("none" | "user-status" | "error").
IdleStatus(emitted) == [pc |-> "idle", status |-> "none", emitted |-> emitted]

\* No call of chatService.sendMessage under way.
NoSend ==
  [pc |-> "idle", senderId |-> NoUser, receiverId |-> NoId, groupId |-> NoGroup,
   contentLength |-> 0]

\* The requests that may be calling chatService.deleteMessage at a time.
DeleteRequests == {1, 2}

\* No call of chatService.deleteMessage under way for the request.
NoDelete ==
  [pc |-> "idle", messageId |-> 0, userId |-> NoUser, result |-> "none"]

\* No update of the Message collection in progress.
NoUpdate ==
  [senderId |-> NoUser, receiverId |-> NoUser, todo |-> {}, modifiedCount |-> 0,
   returned |-> {}]

\* ------------------------------------------------------- user documents
\* userSchema.security defaults
NoSecurity ==
  [pinRetryCount |-> 0, pinRetryWindow |-> NoTime, isLocked |-> FALSE,
   lockedUntil |-> NoTime]

\* login / verify-pin requests that can be under way at once
PinRequests == {1, 2}

NoPin ==
  [pc |-> "idle", kind |-> "none", userId |-> NoUser, pinValid |-> FALSE,
   user |-> NoSecurity, tokenVersion |-> 0, result |-> "none"]

NoLogout == [pc |-> "idle", tokenVersion |-> 0, issuedBefore |-> {}]

\* ------------------------------------------------------------------- Init
Init ==
  /\ connectedUsers = EmptyMap
  /\ userSockets = EmptyMap
  /\ socketUsers = EmptyMap
  /\ socketUserId = [s \in Sockets |-> NoUser]
  /\ transport = [s \in Sockets |-> "new"]
  /\ connPc = [s \in Sockets |-> "idle"]
  /\ discPc = [s \in Sockets |-> "idle"]
  /\ handlers = [s \in Sockets |-> FALSE]
  /\ rooms = [s \in Sockets |-> {}]
  /\ activeSessions = <<>>
  /\ dbStatus = [u \in Users |-> "offline"]
  /\ dbLastActivityAt = [u \in Users |-> 0]
  /\ onlineEmitted = [u \in Users |-> 0]
  /\ offlineEmitted = [u \in Users |-> 0]
  /\ emptyTransitions = [u \in Users |-> 0]
  /\ now = 0
  /\ sweepDue = FALSE
  /\ sweepRuns = <<>>
  /\ warnRecv = [s \in Sockets |-> 0]
  /\ timeoutRecv = [s \in Sockets |-> 0]
  /\ timedOut = [u \in Users |-> FALSE]
  /\ messages = <<>>
  /\ sendOp = [s \in Sockets |-> IdleSend("none")]
  /\ msgRecv = [s \in Sockets |-> {}]
  /\ deliveredOp = NoUpdate
  /\ readOp = NoUpdate
  /\ sendCall = NoSend
  /\ deleteCall = [r \in DeleteRequests |-> NoDelete]
  /\ deliveredRecv = [s \in Sockets |-> {}]
  /\ typingRecv = [s \in Sockets |-> {}]
  /\ statusOp = [s \in Sockets |-> IdleStatus("none")]
  /\ statusRecv = [s \in Sockets |-> <<NoUser, "none">>]
  /\ lastTracked = [u \in Users |-> NoTime]
  /\ security = [u \in Users |-> NoSecurity]
  /\ refreshTokenVersion = [u \in Users |-> 0]
  /\ issuedTokens = {<<u, 0>> : u \in Users}
  /\ pinOp = [r \in PinRequests |-> NoPin]
  /\ logoutOp = [u \in Users |-> NoLogout]
  /\ forceLogoutRecv = [s \in Sockets |-> 0]
  /\ failedPins = [u \in Users |-> [n |-> 0, first |-> NoTime]]
  /\ cleanupDue = FALSE
  /\ cleanupRuns = <<>>

\* ------------------------------------------------- connection registry
\* A registration that leaves socketUsers alone.
trackUserConnection_skipsSocketUsers(userId, socketId) ==
  /\ connectedUsers' = MapSet(connectedUsers, socketId, userId)
  /\ userSockets' =
       MapSet(userSockets, userId,
              (IF MapHas(userSockets, userId) THEN userSockets[userId] ELSE {})
                \cup {socketId})
  /\ socketUsers' = socketUsers
  /\ activeSessions' = updateSocketId(activeSessions, userId, socketId)

\* trackUserConnection(userId, socket)
trackUserConnection(userId, socketId) ==
  /\ connectedUsers' = MapSet(connectedUsers, socketId, userId)
  /\ userSockets' =
       MapSet(userSockets, userId,
              (IF MapHas(userSockets, userId) THEN userSockets[userId] ELSE {})
                \cup {socketId})
  /\ socketUsers' = MapSet(socketUsers, socketId, userId)
  /\ activeSessions' = updateSocketId(activeSessions, userId, socketId)

\* The user's entry of userSockets after removeUserConnection: the socket id
\* leaves the set, and an empty set leaves the map.
userSocketsAfterRemove_keepsEmptySet(us, userId, socketId) ==
  IF MapHas(us, userId)
  THEN MapSet(us, userId, us[userId] \ {socketId})
  ELSE us

userSocketsAfterRemove(us, userId, socketId) ==
  IF MapHas(us, userId)
  THEN IF Cardinality(us[userId] \ {socketId}) = 0
       THEN MapDelete(us, userId)
       ELSE MapSet(us, userId, us[userId] \ {socketId})
  ELSE us

\* removeUserConnection(userId, socketId)
removeUserConnection(userId, socketId) ==
  /\ connectedUsers' = MapDelete(connectedUsers, socketId)
  /\ userSockets' = userSocketsAfterRemove(userSockets, userId, socketId)
  /\ socketUsers' = MapDelete(socketUsers, socketId)
  /\ activeSessions' = removeSocketId(activeSessions, userId)

\* handleDisconnection: hasOtherConnections, read after the removal.
hasOtherConnections_neverOthers(us, userId) == FALSE

hasOtherConnections(us, userId) ==
  MapHas(us, userId) /\ Cardinality(us[userId]) > 0

\* ------------------------------------------------------- authentication
\* userSchema.virtual('isAccountLocked')
isAccountLocked(sec, t) ==
  sec.isLocked /\ sec.lockedUntil # NoTime /\ t < sec.lockedUntil

\* verifyAccessToken: the token's tokenVersion is the user's
\* sessionData.refreshTokenVersion.
verifyAccessToken(token) == token[2] = refreshTokenVersion[token[1]]

\* The user holds a token that verifies and the account is not locked: the
\* checks of authenticate and of authenticateSocket pass.
authenticate(u) ==
  /\ \E token \in issuedTokens : token[1] = u /\ verifyAccessToken(token)
  /\ ~isAccountLocked(security[u], now)

\* ------------------------------------------------------ handleConnection
\* Socket ids are fresh; they are used in increasing order.
NextSocket(s) == \A t \in Sockets : t < s => transport[t] # "new"

\* authenticateSocket passes for user u; handleConnection runs to its first
\* suspension: trackUserConnection, then user.setOnline() starts its save.
Connect(s, u) ==
  /\ transport[s] = "new"
  /\ NextSocket(s)
  /\ authenticate(u)
  /\ transport' = [transport EXCEPT ![s] = "open"]
  /\ socketUserId' = [socketUserId EXCEPT ![s] = u]
  /\ trackUserConnection(u, s)
  /\ connPc' = [connPc EXCEPT ![s] = "setOnline"]
  /\ UNCHANGED <<lastTracked, msgVars, authVars, cleanVars, discPc, handlers, rooms, presVars, dbUserVars, now,
                 sweepVars, timedOut>>

\* user.setOnline() has saved; sessionService.trackActivity sets the session
\* record and starts its database update.
ConnSetOnline(s) ==
  /\ connPc[s] = "setOnline"
  /\ LET u == socketUserId[s] IN
       /\ dbStatus' = [dbStatus EXCEPT ![u] = "online"]
       /\ dbLastActivityAt' = [dbLastActivityAt EXCEPT ![u] = now]
       /\ activeSessions' = trackActivity(activeSessions, u, s, now)
  /\ connPc' = [connPc EXCEPT ![s] = "trackActivity"]
  /\ lastTracked' = [lastTracked EXCEPT ![socketUserId[s]] = now]
  /\ UNCHANGED <<msgVars, authVars, cleanVars, regVars, socketUserId, transport, discPc, handlers, rooms,
                 presVars, now,
                 sweepVars, timedOut>>

\* trackActivity has returned: socket.join(`user:${userId}`), the user-online
\* broadcast, and chatService.getOnlineUsers starts.
ConnTrackActivity(s) ==
  /\ connPc[s] = "trackActivity"
  /\ LET u == socketUserId[s] IN
       /\ dbLastActivityAt' = [dbLastActivityAt EXCEPT ![u] = now]
       /\ rooms' = [rooms EXCEPT ![s] =
                      IF transport[s] = "open" THEN @ \cup {UserRoom(u)} ELSE @]
       /\ onlineEmitted' = [onlineEmitted EXCEPT ![u] = @ + 1]
  /\ connPc' = [connPc EXCEPT ![s] = "onlineUsers"]
  /\ lastTracked' = [lastTracked EXCEPT ![socketUserId[s]] = now]
  /\ UNCHANGED <<msgVars, authVars, cleanVars, regVars, socketUserId, transport, discPc, handlers, dbStatus,
                 offlineEmitted, emptyTransitions, activeSessions, now,
                 sweepVars, timedOut>>

\* getOnlineUsers has returned: the snapshot is sent and setupEventHandlers
\* registers the listeners, the disconnect listener among them.
ConnOnlineUsers(s) ==
  /\ connPc[s] = "onlineUsers"
  /\ connPc' = [connPc EXCEPT ![s] = "done"]
  /\ handlers' = [handlers EXCEPT ![s] = TRUE]
  /\ UNCHANGED <<lastTracked, msgVars, authVars, cleanVars, regVars, socketUserId, transport, discPc, rooms, presVars,
                 dbUserVars, activeSessions, now,
                 sweepVars, timedOut>>

\* getOnlineUsers has thrown: the catch block emits an error event and
\* handleConnection ends without setupEventHandlers.
ConnOnlineUsersFail(s) ==
  /\ connPc[s] = "onlineUsers"
  /\ connPc' = [connPc EXCEPT ![s] = "failed"]
  /\ UNCHANGED <<lastTracked, msgVars, authVars, cleanVars, regVars, socketUserId, transport, discPc, handlers, rooms,
                 presVars, dbUserVars, activeSessions, now,
                 sweepVars, timedOut>>

\* --------------------------------------------------- handleDisconnection
\* The transport closes and the 'disconnect' listener runs handleDisconnection
\* to its first suspension: removeUserConnection, hasOtherConnections, and
\* for the last connection user.setOffline() starts its save.
Disconnect(s) ==
  /\ transport[s] = "open"
  /\ handlers[s]
  /\ transport' = [transport EXCEPT ![s] = "closed"]
  /\ rooms' = [rooms EXCEPT ![s] = {}]
  /\ LET u == socketUserId[s] IN
       /\ removeUserConnection(u, s)
       /\ emptyTransitions' =
            [emptyTransitions EXCEPT ![u] =
               IF MapHas(userSockets, u) /\ ~MapHas(userSockets', u)
               THEN @ + 1 ELSE @]
       /\ discPc' = [discPc EXCEPT ![s] =
                       IF hasOtherConnections(userSockets', u)
                       THEN "done" ELSE "setOffline"]
  /\ UNCHANGED <<lastTracked, msgVars, authVars, cleanVars, socketUserId, connPc, handlers, onlineEmitted, offlineEmitted,
                 dbUserVars, now,
                 sweepVars, timedOut>>

\* The transport closes before setupEventHandlers has registered a
\* 'disconnect' listener: the event has no listener.
CloseUnhandled(s) ==
  /\ transport[s] = "open"
  /\ ~handlers[s]
  /\ transport' = [transport EXCEPT ![s] = "closed"]
  /\ rooms' = [rooms EXCEPT ![s] = {}]
  /\ UNCHANGED <<lastTracked, msgVars, authVars, cleanVars, regVars, socketUserId, connPc, discPc, handlers, presVars,
                 dbUserVars, activeSessions, now,
                 sweepVars, timedOut>>

\* user.setOffline() has saved; sessionService.endSession removes the session
\* record and starts its database lookup.
DiscSetOffline(s) ==
  /\ discPc[s] = "setOffline"
  /\ LET u == socketUserId[s] IN
       /\ dbStatus' = [dbStatus EXCEPT ![u] = "offline"]
       /\ activeSessions' = SessionDelete(activeSessions, u)
  /\ discPc' = [discPc EXCEPT ![s] = "endSession"]
  /\ UNCHANGED <<lastTracked, msgVars, authVars, cleanVars, regVars, socketUserId, transport, connPc, handlers, rooms,
                 presVars, dbLastActivityAt, now,
                 sweepVars, timedOut>>

\* endSession has returned (its own setOffline saved): the user-offline
\* broadcast.
DiscEndSession(s) ==
  /\ discPc[s] = "endSession"
  /\ LET u == socketUserId[s] IN
       /\ dbStatus' = [dbStatus EXCEPT ![u] = "offline"]
       /\ offlineEmitted' = [offlineEmitted EXCEPT ![u] = @ + 1]
  /\ discPc' = [discPc EXCEPT ![s] = "done"]
  /\ UNCHANGED <<lastTracked, msgVars, authVars, cleanVars, regVars, socketUserId, transport, connPc, handlers, rooms,
                 onlineEmitted, emptyTransitions, dbLastActivityAt,
                 activeSessions, now,
                 sweepVars, timedOut>>

\* endSession has thrown (its database lookup failed): the catch block of
\* handleDisconnection logs, and nothing is broadcast.
DiscEndSessionFail(s) ==
  /\ discPc[s] = "endSession"
  /\ discPc' = [discPc EXCEPT ![s] = "done"]
  /\ UNCHANGED <<lastTracked, msgVars, authVars, cleanVars, regVars, socketUserId, transport, connPc, handlers, rooms,
                 presVars, dbUserVars, activeSessions, now,
                 sweepVars, timedOut>>

\* ------------------------------------------------------- session status
\* A clock reading that never shows inactivity.
minutesInactive_alwaysZero(lastActivity, t) == 0

\* moment().diff(lastActivity, 'minutes')
minutesInactive(lastActivity, t) == t - lastActivity

inMemoryStatus_warnsEarly(m, timeoutMinutes) ==
  [isActive |-> m < timeoutMinutes,
   requiresPinEntry |-> ~(m < timeoutMinutes),
   showWarning |-> m >= timeoutMinutes - 2 /\ m < timeoutMinutes,
   minutesInactive |-> m]

\* The answer of checkSessionStatus from an in-memory record that has been
\* inactive for m minutes, under config.session.timeoutMinutes.
inMemoryStatus(m, timeoutMinutes) ==
  [isActive |-> m < timeoutMinutes,
   requiresPinEntry |-> ~(m < timeoutMinutes),
   showWarning |-> m >= timeoutMinutes - 1 /\ m < timeoutMinutes,
   minutesInactive |-> m]

checkSessionStatus_dbPathActive(sessions, lastActivityAt, userId, t) ==
  LET m == IF SessionHas(sessions, userId)
           THEN minutesInactive(SessionGet(sessions, userId).lastActivity, t)
           ELSE 0
  IN [isActive |-> m < TimeoutMinutes,
      requiresPinEntry |-> ~(m < TimeoutMinutes),
      showWarning |-> SessionHas(sessions, userId)
                        /\ m >= TimeoutMinutes - 1 /\ m < TimeoutMinutes,
      minutesInactive |-> m]

\* checkSessionStatus(userId): from the in-memory record, or from the user's
\* persisted lastActivityAt when there is none (no showWarning on that path).
checkSessionStatus(sessions, lastActivityAt, userId, t) ==
  IF ~SessionHas(sessions, userId)
  THEN IF userId \notin DOMAIN lastActivityAt
       THEN \* !user || !user.isActive: 'User not found'
            [isActive |-> FALSE, requiresPinEntry |-> TRUE, showWarning |-> FALSE,
             minutesInactive |-> 0]
       ELSE LET m == minutesInactive(lastActivityAt[userId], t) IN
              [isActive |-> m < TimeoutMinutes,
               requiresPinEntry |-> ~(m < TimeoutMinutes),
               showWarning |-> FALSE,
               minutesInactive |-> m]
  ELSE inMemoryStatus(minutesInactive(SessionGet(sessions, userId).lastActivity, t),
                      TimeoutMinutes)

\* getUsersNeedingTimeoutWarning(), in the Map's order
NeedsWarning(r, t) ==
  /\ minutesInactive(r.lastActivity, t) >= TimeoutMinutes - 1
  /\ minutesInactive(r.lastActivity, t) < TimeoutMinutes

getUsersNeedingTimeoutWarning(sessions, t) ==
  SelectSeq(sessions, LAMBDA r : NeedsWarning(r, t))

\* getTimedOutUsers(), in the Map's order; each entry keeps the socketId the
\* record had when the list was made.
IsTimedOut(r, t) == minutesInactive(r.lastActivity, t) >= TimeoutMinutes

getTimedOutUsers(sessions, t) ==
  SelectSeq(sessions, LAMBDA r : IsTimedOut(r, t))

SeqRange(q) == {q[i] : i \in 1..Len(q)}

\* io.to(socketId).emit(...): each socket is in the room of its own id.
EmitToSocketIds(recv, ids) ==
  [s \in Sockets |->
     IF s \in ids /\ transport[s] = "open" THEN recv[s] + 1 ELSE recv[s]]

\* ---------------------------------------------------- checkSessionTimeouts
\* The interval of startSessionMonitoring elapses.
Tick ==
  /\ now < MaxTime
  /\ ~sweepDue
  /\ now' = now + 1
  /\ sweepDue' = TRUE
  /\ UNCHANGED <<lastTracked, msgVars, authVars, cleanVars, regVars, sockVars, presVars, dbUserVars, activeSessions,
                 sweepRuns, warnRecv, timeoutRecv, timedOut>>

\* checkSessionTimeouts() to its first suspension: the warnings, the list of
\* timed-out users, and the first pass of the loop up to the database lookup
\* of handleSessionTimeout (which has removed the session record by then).
SweepStart ==
  /\ sweepDue
  /\ sweepDue' = FALSE
  /\ LET warningUsers == getUsersNeedingTimeoutWarning(activeSessions, now)
         timedOutUsers == getTimedOutUsers(activeSessions, now)
     IN
       /\ warnRecv' = EmitToSocketIds(warnRecv,
                        {r.socketId : r \in SeqRange(warningUsers)} \ {NoSocket})
       /\ IF Len(timedOutUsers) = 0
          THEN UNCHANGED <<sweepRuns, timeoutRecv, activeSessions, timedOut>>
          ELSE LET first == Head(timedOutUsers) IN
               /\ timeoutRecv' = EmitToSocketIds(timeoutRecv, {first.socketId} \ {NoSocket})
               /\ activeSessions' = SessionDelete(activeSessions, first.userId)
               /\ timedOut' = [timedOut EXCEPT ![first.userId] = TRUE]
               /\ sweepRuns' = Append(sweepRuns,
                    [queue |-> timedOutUsers,
                     batch |-> {r.userId : r \in SeqRange(timedOutUsers)},
                     reached |-> {first.userId}])
  /\ UNCHANGED <<lastTracked, msgVars, authVars, cleanVars, regVars, sockVars, presVars, dbUserVars, now>>

handleSessionTimeoutStatus_offline(status) == "offline"

\* handleSessionTimeout: user.status = 'away', whatever it was.
handleSessionTimeoutStatus(status) == "away"

RemoveRun(runs, i) == SubSeq(runs, 1, i - 1) \o SubSeq(runs, i + 1, Len(runs))

\* handleSessionTimeout of run i has saved status 'away'; the loop goes on to
\* the next user of its list, or the run ends.
SweepTimeoutSaved(i) ==
  /\ i \in 1..Len(sweepRuns)
  /\ LET run == sweepRuns[i]
         u == Head(run.queue).userId
         rest == Tail(run.queue)
     IN
       /\ dbStatus' = [dbStatus EXCEPT ![u] = handleSessionTimeoutStatus(@)]
       /\ IF Len(rest) = 0
          THEN /\ sweepRuns' = RemoveRun(sweepRuns, i)
               /\ UNCHANGED <<timeoutRecv, activeSessions, timedOut>>
          ELSE LET next == Head(rest) IN
               /\ timeoutRecv' = EmitToSocketIds(timeoutRecv, {next.socketId} \ {NoSocket})
               /\ activeSessions' = SessionDelete(activeSessions, next.userId)
               /\ timedOut' = [timedOut EXCEPT ![next.userId] = TRUE]
               /\ sweepRuns' = [sweepRuns EXCEPT ![i] =
                    [queue |-> rest, batch |-> run.batch,
                     reached |-> run.reached \cup {next.userId}]]
  /\ UNCHANGED <<lastTracked, msgVars, authVars, cleanVars, regVars, sockVars, presVars, dbLastActivityAt, now, sweepDue,
                 warnRecv>>

\* handleSessionTimeout of run i throws (User.findById or user.save failed):
\* it rethrows, and the one try/catch of checkSessionTimeouts ends the run.
SweepTimeoutThrows(i) ==
  /\ i \in 1..Len(sweepRuns)
  /\ sweepRuns' = RemoveRun(sweepRuns, i)
  /\ UNCHANGED <<lastTracked, msgVars, authVars, cleanVars, regVars, sockVars, presVars, dbUserVars, activeSessions, now,
                 sweepDue, warnRecv, timeoutRecv, timedOut>>

\* ------------------------------------------------ HTTP middleware chain
\* validateSession: checkSessionStatus decides between next() and the 401
\* SESSION_TIMEOUT answer.
validateSession(sessions, lastActivityAt, userId, t) ==
  IF checkSessionStatus(sessions, lastActivityAt, userId, t).isActive
  THEN "next"
  ELSE "SESSION_TIMEOUT"

\* A request on a route behind router.use(authenticate) and
\* router.use(validateSession), with a valid token.  authenticate calls
\* sessionService.trackActivity (no socketId) and next(); validateSession
\* then reads the session.  The awaits of the chain are database round
\* trips within one value of the clock, so the chain is one step.
HttpRequest(u) ==
  LET tracked == trackActivity(activeSessions, u, NoSocket, now)
      lastAt == [dbLastActivityAt EXCEPT ![u] = now]
      answer == validateSession(tracked, lastAt, u, now)
  IN
    /\ authenticate(u)
    /\ dbLastActivityAt' = lastAt
    /\ IF answer = "next"
       THEN /\ activeSessions' = tracked
            /\ UNCHANGED <<dbStatus, timedOut>>
       ELSE \* handleSessionTimeout
            /\ activeSessions' = SessionDelete(tracked, u)
            /\ dbStatus' = [dbStatus EXCEPT ![u] = handleSessionTimeoutStatus(@)]
            /\ timedOut' = [timedOut EXCEPT ![u] = TRUE]
    /\ lastTracked' = [lastTracked EXCEPT ![u] = now]
    /\ UNCHANGED <<msgVars, authVars, cleanVars, regVars, sockVars, presVars, now, sweepVars>>

\* POST /api/auth/verify-pin: authenticate (with its trackActivity), then the
\* controller: authService.verifyPin and, for a valid PIN, reactivateSession
\* (trackActivity and user.setOnline).
VerifyPin(u, pinValid) ==
  /\ authenticate(u)
  /\ activeSessions' = trackActivity(activeSessions, u, NoSocket, now)
  /\ dbLastActivityAt' = [dbLastActivityAt EXCEPT ![u] = now]
  /\ dbStatus' = [dbStatus EXCEPT ![u] = IF pinValid THEN "online" ELSE @]
  /\ timedOut' = [timedOut EXCEPT ![u] = IF pinValid THEN FALSE ELSE @]
  /\ lastTracked' = [lastTracked EXCEPT ![u] = now]
  /\ UNCHANGED <<msgVars, authVars, cleanVars, regVars, sockVars, presVars, now, sweepVars>>

\* ----------------------------------------------------- socket events
Rooms == {UserRoom(u) : u \in Users}

\* handleJoinRoom(socket, {roomId, roomType}): socket.join, then trackActivity.
JoinRoom(s, room) ==
  /\ transport[s] = "open"
  /\ handlers[s]
  /\ rooms' = [rooms EXCEPT ![s] = @ \cup {room}]
  /\ activeSessions' = trackActivity(activeSessions, socketUserId[s], s, now)
  /\ dbLastActivityAt' = [dbLastActivityAt EXCEPT ![socketUserId[s]] = now]
  /\ lastTracked' = [lastTracked EXCEPT ![socketUserId[s]] = now]
  /\ UNCHANGED <<msgVars, authVars, cleanVars, regVars, socketUserId, transport, connPc, discPc, handlers,
                 presVars, dbStatus, now, sweepVars, timedOut>>

\* ------------------------------------------------- chatService.sendMessage
\* this.maxMessageLength of the ChatService constructor
maxMessageLength == 1000

\* A content is modelled by its length (it has no surrounding white space).
ContentLengths == {0, 1, maxMessageLength + 1}

sendMessageValid_bothAccepted(senderId, receiverId, groupId, contentLength, senderActive, receiverActive) ==
  /\ senderId # NoUser
  /\ ~(receiverId = NoId /\ groupId = NoGroup)
  /\ contentLength # 0
  /\ ~(contentLength > maxMessageLength)
  /\ senderActive
  /\ receiverId # NoId => (receiverActive /\ toString(senderId) # receiverId)

\* The checks of sendMessage before the message is created, in the order of
\* the code; senderActive and receiverActive are the outcomes of the two
\* User.findById lookups (found and isActive).  senderId === receiverId
\* compares the two strings.
sendMessageValid(senderId, receiverId, groupId, contentLength, senderActive, receiverActive) ==
  /\ senderId # NoUser
  /\ ~(receiverId = NoId /\ groupId = NoGroup)
  /\ ~(receiverId # NoId /\ groupId # NoGroup)
  /\ contentLength # 0
  /\ ~(contentLength > maxMessageLength)
  /\ senderActive
  /\ receiverId # NoId => (receiverActive /\ toString(senderId) # receiverId)

\* new Message({senderId, receiverId: receiverId || null,
\* groupId: groupId || null, content, status: 'sent'}): the ids are cast to
\* ObjectId.
NewMessage(senderId, receiverId, groupId, contentLength) ==
  [senderId |-> senderId, receiverId |-> castObjectId(receiverId),
   groupId |-> groupId, contentLength |-> contentLength, status |-> "sent",
   isDeleted |-> FALSE]

\* chatService.sendMessage as a whole, as a controller calls it for an
\* active sender and receiver: throws on invalid input, else message.save()
\* and sender.updateActivity().
sendMessage(senderId, receiverId, groupId, contentLength) ==
  /\ Len(messages) < MaxMessages
  /\ IF sendMessageValid(senderId, receiverId, groupId, contentLength, TRUE, TRUE)
     THEN /\ messages' = Append(messages,
                 NewMessage(senderId, receiverId, groupId, contentLength))
          /\ dbLastActivityAt' = [dbLastActivityAt EXCEPT ![senderId] = now]
     ELSE UNCHANGED <<messages, dbLastActivityAt>>
  /\ UNCHANGED <<authVars, cleanVars, typingRecv, statusOp, statusRecv, sendCall, deleteCall, deliveredRecv, lastTracked, regVars, sockVars,
                 presVars, dbStatus, activeSessions, now, sweepVars, timedOut,
                 sendOp, msgRecv, deliveredOp, readOp>>

\* A caller invokes chatService.sendMessage with some arguments.
sendMessageCalled(senderId, receiverId, groupId, contentLength) ==
  /\ sendCall.pc = "idle"
  /\ sendCall' = [pc |-> "called", senderId |-> senderId, receiverId |-> receiverId,
                  groupId |-> groupId, contentLength |-> contentLength]
  /\ UNCHANGED <<authVars, cleanVars, typingRecv, statusOp, statusRecv, deleteCall, deliveredRecv, lastTracked, regVars, sockVars, presVars,
                 dbUserVars, activeSessions, now, sweepVars, timedOut, messages,
                 sendOp, msgRecv, deliveredOp, readOp>>

\* The call runs to its end: it throws at the first failing check, else
\* message.save() and sender.updateActivity().
sendMessageReturns(senderActive, receiverActive) ==
  /\ sendCall.pc = "called"
  /\ IF sendMessageValid(sendCall.senderId, sendCall.receiverId, sendCall.groupId,
                         sendCall.contentLength, senderActive, receiverActive)
     THEN /\ Len(messages) < MaxMessages
          /\ messages' = Append(messages,
                 NewMessage(sendCall.senderId, sendCall.receiverId,
                            sendCall.groupId, sendCall.contentLength))
          /\ dbLastActivityAt' = [dbLastActivityAt EXCEPT ![sendCall.senderId] = now]
          /\ sendCall' = [sendCall EXCEPT !.pc = "stored"]
     ELSE /\ sendCall' = [sendCall EXCEPT !.pc = "rejected"]
          /\ UNCHANGED <<messages, dbLastActivityAt>>
  /\ UNCHANGED <<authVars, cleanVars, typingRecv, statusOp, statusRecv, deleteCall, deliveredRecv, lastTracked, regVars, sockVars, presVars,
                 dbStatus, activeSessions, now, sweepVars, timedOut,
                 sendOp, msgRecv, deliveredOp, readOp>>

\* The caller has taken the outcome of the call (the returned message or the
\* error thrown).
sendMessageOutcomeTaken ==
  /\ sendCall.pc \in {"rejected", "stored"}
  /\ sendCall' = NoSend
  /\ UNCHANGED <<authVars, cleanVars, typingRecv, statusOp, statusRecv, deleteCall, deliveredRecv, lastTracked, regVars, sockVars, presVars,
                 dbUserVars, activeSessions, now, sweepVars, timedOut, messages,
                 sendOp, msgRecv, deliveredOp, readOp>>

\* schemas.sendMessage on the body of POST /api/chat/send: both spellings of
\* an id match the pattern; content has 1..1000 characters; the custom rule
\* wants exactly one of receiverId and groupId.
schemasSendMessage(receiverId, groupId, contentLength) ==
  /\ contentLength >= 1
  /\ contentLength <= 1000
  /\ ~(receiverId = NoId /\ groupId = NoGroup)
  /\ ~(receiverId # NoId /\ groupId # NoGroup)

\* ------------------------------------------------------ handleSendMessage
\* emit of message-received to a set of sockets
EmitMessageReceived(recv, targets, messageId, status) ==
  [s \in Sockets |->
     IF s \in targets THEN recv[s] \cup {<<messageId, status>>} ELSE recv[s]]

\* socket.emit: a socket that is no longer connected receives nothing.
EmittedTo(s, event) == IF transport[s] = "open" THEN event ELSE "none"

\* The send-message event arrives: trackActivity, then chatService.sendMessage
\* is called.  Its validation reads nothing but the event's data, so its
\* outcome is taken here: invalid data throws and the catch of
\* handleSendMessage emits error; valid data leaves the call under way.
handleSendMessage(s, receiverId, groupId, contentLength) ==
  /\ transport[s] = "open"
  /\ handlers[s]
  /\ sendOp[s].pc = "idle"
  /\ activeSessions' = trackActivity(activeSessions, socketUserId[s], s, now)
  /\ dbLastActivityAt' = [dbLastActivityAt EXCEPT ![socketUserId[s]] = now]
  /\ sendOp' = [sendOp EXCEPT ![s] =
       IF sendMessageValid(socketUserId[s], receiverId, groupId, contentLength,
                           TRUE, TRUE)
       THEN [pc |-> "sendMessage", receiverId |-> receiverId, groupId |-> groupId,
             messageId |-> 0, emitted |-> "none"]
       ELSE IdleSend("error")]
  /\ lastTracked' = [lastTracked EXCEPT ![socketUserId[s]] = now]
  /\ UNCHANGED <<authVars, cleanVars, typingRecv, statusOp, statusRecv, sendCall, deleteCall, deliveredRecv, regVars, sockVars, presVars, dbStatus, now, sweepVars,
                 timedOut, messages, msgRecv, deliveredOp, readOp>>

\* message.save() succeeds; the sender's activity is updated; the populate
\* calls are under way.
SendMessageSaved(s) ==
  /\ sendOp[s].pc = "sendMessage"
  /\ Len(messages) < MaxMessages
  /\ messages' = Append(messages,
                 NewMessage(socketUserId[s], sendOp[s].receiverId, sendOp[s].groupId, 1))
  /\ dbLastActivityAt' = [dbLastActivityAt EXCEPT ![socketUserId[s]] = now]
  /\ sendOp' = [sendOp EXCEPT ![s].pc = "populate",
                              ![s].messageId = Len(messages) + 1]
  /\ UNCHANGED <<authVars, cleanVars, typingRecv, statusOp, statusRecv, sendCall, deleteCall, deliveredRecv, lastTracked, regVars, sockVars, presVars, dbStatus, activeSessions, now,
                 sweepVars, timedOut, msgRecv, deliveredOp, readOp>>

\* sendMessage throws before anything is stored (a user lookup or
\* message.save() failing); the catch of handleSendMessage emits error.
SendMessageThrows(s) ==
  /\ sendOp[s].pc = "sendMessage"
  /\ sendOp' = [sendOp EXCEPT ![s] = IdleSend(EmittedTo(s, "error"))]
  /\ UNCHANGED <<authVars, cleanVars, typingRecv, statusOp, statusRecv, sendCall, deleteCall, deliveredRecv, lastTracked, regVars, sockVars, presVars, dbUserVars, activeSessions, now,
                 sweepVars, timedOut, messages, msgRecv, deliveredOp, readOp>>

\* The sockets the receiver's copy goes to: io.to(`user:${receiverId}`) with
\* the string as it arrived (the rooms of the model are named in the
\* spelling of _id.toString(), so a room named in another spelling is empty),
\* or socket.to(`group:${groupId}`), which leaves out the sending socket.
ReceiverTargets(s, receiverId, groupId) ==
  IF receiverId # NoId
  THEN IF receiverId = toString(castObjectId(receiverId))
       THEN SocketsInRoom(UserRoom(castObjectId(receiverId)))
       ELSE {}
  ELSE SocketsInRoom(GroupRoom(groupId)) \ {s}

\* The populate calls succeed and sendMessage returns: message-received goes
\* to the sending socket (status sent) and to the receiver's room (status
\* delivered).
SendMessagePopulated(s) ==
  /\ sendOp[s].pc = "populate"
  /\ msgRecv' = EmitMessageReceived(
                  EmitMessageReceived(msgRecv,
                    IF transport[s] = "open" THEN {s} ELSE {},
                    sendOp[s].messageId, "sent"),
                  ReceiverTargets(s, sendOp[s].receiverId, sendOp[s].groupId),
                  sendOp[s].messageId, "delivered")
  /\ sendOp' = [sendOp EXCEPT ![s] = IdleSend(EmittedTo(s, "message-received"))]
  /\ UNCHANGED <<authVars, cleanVars, typingRecv, statusOp, statusRecv, sendCall, deleteCall, deliveredRecv, lastTracked, regVars, sockVars, presVars, dbUserVars, activeSessions, now,
                 sweepVars, timedOut, messages, deliveredOp, readOp>>

\* message.populate() throws after message.save(): sendMessage rethrows and
\* the catch of handleSendMessage emits error; the message stays stored.
SendMessagePopulateThrows(s) ==
  /\ sendOp[s].pc = "populate"
  /\ sendOp' = [sendOp EXCEPT ![s] = IdleSend(EmittedTo(s, "error"))]
  /\ UNCHANGED <<authVars, cleanVars, typingRecv, statusOp, statusRecv, sendCall, deleteCall, deliveredRecv, lastTracked, regVars, sockVars, presVars, dbUserVars, activeSessions, now,
                 sweepVars, timedOut, messages, msgRecv, deliveredOp, readOp>>

\* handleLeaveRoom(socket, {roomId, roomType}): socket.leave, no trackActivity.
LeaveRoom(s, room) ==
  /\ transport[s] = "open"
  /\ handlers[s]
  /\ rooms' = [rooms EXCEPT ![s] = @ \ {room}]
  /\ UNCHANGED <<lastTracked, regVars, socketUserId, transport, connPc, discPc, handlers,
                 presVars, dbUserVars, activeSessions, now, sweepVars, timedOut,
                 msgVars, authVars, cleanVars>>

\* ------------------------------------------- message state: delivered, read
ConversationIds_reversed(msgs, senderId, receiverId) ==
  {i \in 1..Len(msgs) :
     msgs[i].senderId = receiverId /\ msgs[i].receiverId = senderId}

\* The messages of one direction of a conversation.
ConversationIds(msgs, senderId, receiverId) ==
  {i \in 1..Len(msgs) :
     msgs[i].senderId = senderId /\ msgs[i].receiverId = receiverId}

\* Message.getChatHistory(userId, otherUserId): the messages of both
\* directions that are not soft-deleted.
HistoryIds(msgs, userId, otherUserId) ==
  {i \in 1..Len(msgs) :
     /\ \/ msgs[i].senderId = userId /\ msgs[i].receiverId = otherUserId
        \/ msgs[i].senderId = otherUserId /\ msgs[i].receiverId = userId
     /\ ~msgs[i].isDeleted}

StartUpdate(senderId, receiverId) ==
  [senderId |-> senderId, receiverId |-> receiverId,
   todo |-> ConversationIds(messages, senderId, receiverId), modifiedCount |-> 0,
   returned |-> {}]

markMessagesAsDeliveredFilter_anyStatus(m, senderId, receiverId) ==
  /\ m.senderId = senderId
  /\ m.receiverId = receiverId
  /\ ~m.isDeleted

\* The filter of the updateMany of markMessagesAsDelivered.
markMessagesAsDeliveredFilter(m, senderId, receiverId) ==
  /\ m.senderId = senderId
  /\ m.receiverId = receiverId
  /\ m.status = "sent"
  /\ ~m.isDeleted

\* Message.markConversationAsRead(senderId, receiverId): sent|delivered -> read
\* for the conversation.
markConversationAsReadFilter(m, senderId, receiverId) ==
  /\ m.senderId = senderId
  /\ m.receiverId = receiverId
  /\ m.status \in {"sent", "delivered"}

\* chatService.getChatHistory(userId, otherUserId, null): the history is read
\* (returned holds the messages that go into the answer) and
\* markMessagesAsDelivered(otherUserId, userId) sends its updateMany.
getChatHistory(userId, otherUserId) ==
  /\ deliveredOp = NoUpdate
  /\ deliveredOp' = [StartUpdate(otherUserId, userId) EXCEPT
                       !.returned = HistoryIds(messages, userId, otherUserId)]
  /\ UNCHANGED <<authVars, cleanVars, typingRecv, statusOp, statusRecv, sendCall, deleteCall, deliveredRecv, lastTracked, regVars, sockVars, presVars, dbUserVars, activeSessions, now,
                 sweepVars, timedOut, messages, sendOp, msgRecv, readOp>>

\* The updateMany reaches document i: the filter is tested and the $set
\* applied to that document in one atomic step.
markMessagesAsDeliveredStep(i) ==
  /\ i \in deliveredOp.todo
  /\ LET hit == markMessagesAsDeliveredFilter(messages[i], deliveredOp.senderId,
                                              deliveredOp.receiverId)
     IN
       /\ messages' = IF hit THEN [messages EXCEPT ![i].status = "delivered"]
                            ELSE messages
       /\ deliveredOp' = [deliveredOp EXCEPT
                            !.todo = @ \ {i},
                            !.modifiedCount = IF hit THEN @ + 1 ELSE @]
  /\ UNCHANGED <<authVars, cleanVars, typingRecv, statusOp, statusRecv, sendCall, deleteCall, deliveredRecv, lastTracked, regVars, sockVars, presVars, dbUserVars, activeSessions, now,
                 sweepVars, timedOut, sendOp, msgRecv, readOp>>

\* The updateMany has visited its documents; markMessagesAsDelivered returns
\* result.modifiedCount.
markMessagesAsDeliveredReturn ==
  /\ deliveredOp # NoUpdate
  /\ deliveredOp.todo = {}
  /\ deliveredOp' = NoUpdate
  /\ UNCHANGED <<authVars, cleanVars, typingRecv, statusOp, statusRecv, sendCall, deleteCall, deliveredRecv, lastTracked, regVars, sockVars, presVars, dbUserVars, activeSessions, now,
                 sweepVars, timedOut, messages, sendOp, msgRecv, readOp>>

\* chatService.markMessagesAsRead(senderId, receiverId) calls
\* Message.markConversationAsRead.
markMessagesAsRead(senderId, receiverId) ==
  /\ senderId # NoUser
  /\ receiverId # NoUser
  /\ readOp = NoUpdate
  /\ readOp' = StartUpdate(senderId, receiverId)
  /\ UNCHANGED <<authVars, cleanVars, typingRecv, statusOp, statusRecv, sendCall, deleteCall, deliveredRecv, lastTracked, regVars, sockVars, presVars, dbUserVars, activeSessions, now,
                 sweepVars, timedOut, messages, sendOp, msgRecv, deliveredOp>>

markConversationAsReadStep(i) ==
  /\ i \in readOp.todo
  /\ LET hit == markConversationAsReadFilter(messages[i], readOp.senderId,
                                             readOp.receiverId)
     IN
       /\ messages' = IF hit THEN [messages EXCEPT ![i].status = "read"]
                            ELSE messages
       /\ readOp' = [readOp EXCEPT
                       !.todo = @ \ {i},
                       !.modifiedCount = IF hit THEN @ + 1 ELSE @]
  /\ UNCHANGED <<authVars, cleanVars, typingRecv, statusOp, statusRecv, sendCall, deleteCall, deliveredRecv, lastTracked, regVars, sockVars, presVars, dbUserVars, activeSessions, now,
                 sweepVars, timedOut, sendOp, msgRecv, deliveredOp>>

\* markMessagesAsRead returns markedCount.
markMessagesAsReadReturn ==
  /\ readOp # NoUpdate
  /\ readOp.todo = {}
  /\ readOp' = NoUpdate
  /\ UNCHANGED <<authVars, cleanVars, typingRecv, statusOp, statusRecv, sendCall, deleteCall, deliveredRecv, lastTracked, regVars, sockVars, presVars, dbUserVars, activeSessions, now,
                 sweepVars, timedOut, messages, sendOp, msgRecv, deliveredOp>>

\* ------------------------------------------------ chatService.deleteMessage
\* deleteMessage(messageId, userId) is called; Message.findById is under way.
deleteMessage(r, messageId, userId) ==
  /\ deleteCall[r].pc = "idle"
  /\ deleteCall' = [deleteCall EXCEPT ![r] =
       [pc |-> "findById", messageId |-> messageId, userId |-> userId,
        result |-> "none"]]
  /\ UNCHANGED <<authVars, cleanVars, typingRecv, statusOp, statusRecv, sendCall, deliveredRecv, lastTracked, regVars, sockVars, presVars,
                 dbUserVars, activeSessions, now, sweepVars, timedOut, messages,
                 sendOp, msgRecv, deliveredOp, readOp>>

deleteMessageAllowed_anyUser(msgs, messageId, userId) ==
  /\ userId # NoUser
  /\ messageId \in 1..Len(msgs)
  /\ ~msgs[messageId].isDeleted

\* The checks of deleteMessage on the document that findById gave: found,
\* message.senderId.toString() === userId, not flags.isDeleted.
deleteMessageAllowed(msgs, messageId, userId) ==
  /\ userId # NoUser
  /\ messageId \in 1..Len(msgs)
  /\ msgs[messageId].senderId = userId
  /\ ~msgs[messageId].isDeleted

\* findById answers: a failing check throws; else message.softDelete(userId)
\* is called and its save is under way.
deleteMessageFound(r) ==
  /\ deleteCall[r].pc = "findById"
  /\ deleteCall' = [deleteCall EXCEPT ![r] =
       IF deleteMessageAllowed(messages, deleteCall[r].messageId, deleteCall[r].userId)
       THEN [@ EXCEPT !.pc = "softDelete"]
       ELSE [@ EXCEPT !.pc = "idle", !.result = "rejected"]]
  /\ UNCHANGED <<authVars, cleanVars, typingRecv, statusOp, statusRecv, sendCall, deliveredRecv, lastTracked, regVars, sockVars, presVars,
                 dbUserVars, activeSessions, now, sweepVars, timedOut, messages,
                 sendOp, msgRecv, deliveredOp, readOp>>

\* message.softDelete(userId) has saved: the deleted flag of the document is
\* set, its other fields are left as stored.
softDeleteSaved(r) ==
  /\ deleteCall[r].pc = "softDelete"
  /\ messages' = [messages EXCEPT ![deleteCall[r].messageId].isDeleted = TRUE]
  /\ deleteCall' = [deleteCall EXCEPT ![r].pc = "idle", ![r].result = "deleted"]
  /\ UNCHANGED <<authVars, cleanVars, typingRecv, statusOp, statusRecv, sendCall, deliveredRecv, lastTracked, regVars, sockVars, presVars,
                 dbUserVars, activeSessions, now, sweepVars, timedOut,
                 sendOp, msgRecv, deliveredOp, readOp>>

\* The save of softDelete fails; deleteMessage rethrows.
softDeleteThrows(r) ==
  /\ deleteCall[r].pc = "softDelete"
  /\ deleteCall' = [deleteCall EXCEPT ![r].pc = "idle", ![r].result = "rejected"]
  /\ UNCHANGED <<authVars, cleanVars, typingRecv, statusOp, statusRecv, sendCall, deliveredRecv, lastTracked, regVars, sockVars, presVars,
                 dbUserVars, activeSessions, now, sweepVars, timedOut, messages,
                 sendOp, msgRecv, deliveredOp, readOp>>

\* The caller has taken the outcome of the call.
deleteMessageOutcomeTaken(r) ==
  /\ deleteCall[r].pc = "idle"
  /\ deleteCall[r].result # "none"
  /\ deleteCall' = [deleteCall EXCEPT ![r] = NoDelete]
  /\ UNCHANGED <<authVars, cleanVars, typingRecv, statusOp, statusRecv, sendCall, deliveredRecv, lastTracked, regVars, sockVars, presVars,
                 dbUserVars, activeSessions, now, sweepVars, timedOut, messages,
                 sendOp, msgRecv, deliveredOp, readOp>>

\* handleMessageDelivered(socket, {messageId, senderId}): trackActivity, then
\* message-delivered goes to the room user:<senderId>; the Message collection
\* is neither read nor written.
handleMessageDelivered(s, messageId, senderId) ==
  /\ transport[s] = "open"
  /\ handlers[s]
  /\ activeSessions' = trackActivity(activeSessions, socketUserId[s], s, now)
  /\ dbLastActivityAt' = [dbLastActivityAt EXCEPT ![socketUserId[s]] = now]
  /\ deliveredRecv' = [r \in Sockets |->
       IF r \in SocketsInRoom(UserRoom(senderId))
       THEN deliveredRecv[r] \cup {messageId} ELSE deliveredRecv[r]]
  /\ lastTracked' = [lastTracked EXCEPT ![socketUserId[s]] = now]
  /\ UNCHANGED <<authVars, cleanVars, typingRecv, statusOp, statusRecv, regVars, sockVars, presVars, dbStatus, now, sweepVars, timedOut,
                 messages, sendOp, msgRecv, deliveredOp, readOp, sendCall,
                 deleteCall>>

\* handleTypingStart(socket, {receiverId}): typing-start goes to the room
\* user:<receiverId>; no trackActivity.
handleTypingStart(s, receiverId) ==
  /\ transport[s] = "open"
  /\ handlers[s]
  /\ typingRecv' = [r \in Sockets |->
       IF r \in SocketsInRoom(UserRoom(receiverId))
       THEN typingRecv[r] \cup {socketUserId[s]} ELSE typingRecv[r]]
  /\ UNCHANGED <<authVars, cleanVars, lastTracked, regVars, sockVars, presVars, dbUserVars, activeSessions,
                 now, sweepVars, timedOut, messages, sendOp, msgRecv, deliveredOp,
                 readOp, sendCall, deleteCall, deliveredRecv, statusOp, statusRecv>>

\* handleTypingStop(socket, {receiverId}): typing-stop goes to the room
\* user:<receiverId>; no trackActivity.
handleTypingStop(s, receiverId) ==
  /\ transport[s] = "open"
  /\ handlers[s]
  /\ typingRecv' = [r \in Sockets |->
       IF r \in SocketsInRoom(UserRoom(receiverId))
       THEN typingRecv[r] \ {socketUserId[s]} ELSE typingRecv[r]]
  /\ UNCHANGED <<authVars, cleanVars, lastTracked, regVars, sockVars, presVars, dbUserVars, activeSessions,
                 now, sweepVars, timedOut, messages, sendOp, msgRecv, deliveredOp,
                 readOp, sendCall, deleteCall, deliveredRecv, statusOp, statusRecv>>

\* --------------------------------------------------------- specifications
ConnectionNext ==
  \/ \E s \in Sockets, u \in Users : Connect(s, u)
  \/ \E s \in Sockets : ConnSetOnline(s)
  \/ \E s \in Sockets : ConnTrackActivity(s)
  \/ \E s \in Sockets : ConnOnlineUsers(s)
  \/ \E s \in Sockets : ConnOnlineUsersFail(s)
  \/ \E s \in Sockets : Disconnect(s)
  \/ \E s \in Sockets : CloseUnhandled(s)
  \/ \E s \in Sockets : DiscSetOffline(s)
  \/ \E s \in Sockets : DiscEndSession(s)
  \/ \E s \in Sockets : DiscEndSessionFail(s)

SpecConn == Init /\ [][ConnectionNext]_vars

\* The session table under HTTP requests and the timeout sweep.
SweepNext ==
  \/ \E u \in SessionUsers : HttpRequest(u)
  \/ \E u \in SessionUsers, pinValid \in BOOLEAN : VerifyPin(u, pinValid)
  \/ Tick
  \/ SweepStart
  \/ \E i \in 1..MaxTime : SweepTimeoutSaved(i)
  \/ \E i \in 1..MaxTime : SweepTimeoutThrows(i)

SpecSweep == Init /\ [][SweepNext]_vars

\* The same with socket connections and their events.
SessionNext ==
  \/ \E s \in SessionSockets, u \in SessionUsers : Connect(s, u)
  \/ \E s \in SessionSockets : ConnSetOnline(s)
  \/ \E s \in SessionSockets : ConnTrackActivity(s)
  \/ \E s \in SessionSockets : ConnOnlineUsers(s)
  \/ \E s \in SessionSockets : Disconnect(s)
  \/ \E s \in SessionSockets : CloseUnhandled(s)
  \/ \E s \in SessionSockets : DiscSetOffline(s)
  \/ \E s \in SessionSockets : DiscEndSession(s)
  \/ \E s \in SessionSockets : JoinRoom(s, UserRoom(socketUserId[s]))
  \/ \E u \in SessionUsers : HttpRequest(u)
  \/ \E u \in SessionUsers, pinValid \in BOOLEAN : VerifyPin(u, pinValid)
  \/ Tick
  \/ SweepStart
  \/ \E i \in 1..MaxTime : SweepTimeoutSaved(i)
  \/ \E i \in 1..MaxTime : SweepTimeoutThrows(i)

SpecSession == Init /\ [][SessionNext]_vars

\* Connections left idle under the timeout sweep.
ExpireNext ==
  \/ \E s \in SessionSockets, u \in SessionUsers : Connect(s, u)
  \/ \E s \in SessionSockets : ConnSetOnline(s)
  \/ \E s \in SessionSockets : ConnTrackActivity(s)
  \/ \E s \in SessionSockets : ConnOnlineUsers(s)
  \/ Tick
  \/ SweepStart
  \/ \E i \in 1..MaxTime : SweepTimeoutSaved(i)
  \/ \E i \in 1..MaxTime : SweepTimeoutThrows(i)

SpecExpire == Init /\ [][ExpireNext]_vars

\* Socket connections with rooms and the fan-out of one-to-one messages; the
\* sockets of SessionSockets send, the receiver's id arrives in the spelling
\* of _id.toString().
MessageNext ==
  \/ \E s \in Sockets, u \in Users : Connect(s, u)
  \/ \E s \in Sockets : ConnSetOnline(s)
  \/ \E s \in Sockets : ConnTrackActivity(s)
  \/ \E s \in Sockets : ConnOnlineUsers(s)
  \/ \E s \in Sockets, room \in Rooms : JoinRoom(s, room)
  \/ \E s \in Sockets, room \in Rooms : LeaveRoom(s, room)
  \/ \E s \in SessionSockets, receiverId \in {toString(u) : u \in Users} \cup {NoId},
        contentLength \in ContentLengths :
       handleSendMessage(s, receiverId, NoGroup, contentLength)
  \/ \E s \in SessionSockets : SendMessageSaved(s)
  \/ \E s \in SessionSockets : SendMessageThrows(s)
  \/ \E s \in SessionSockets : SendMessagePopulated(s)
  \/ \E s \in SessionSockets : SendMessagePopulateThrows(s)

SpecMsg == Init /\ [][MessageNext]_vars

\* The stored one-to-one messages under the chat service's operations; the
\* receiver's id arrives in the spelling of _id.toString().
StoreNext ==
  \/ \E senderId \in SessionUsers,
        receiverId \in {toString(u) : u \in SessionUsers} \cup {NoId},
        contentLength \in ContentLengths :
       sendMessage(senderId, receiverId, NoGroup, contentLength)
  \/ \E userId \in SessionUsers, otherUserId \in SessionUsers :
       getChatHistory(userId, otherUserId)
  \/ \E i \in 1..MaxMessages : markMessagesAsDeliveredStep(i)
  \/ markMessagesAsDeliveredReturn
  \/ \E senderId \in SessionUsers, receiverId \in SessionUsers :
       markMessagesAsRead(senderId, receiverId)
  \/ \E i \in 1..MaxMessages : markConversationAsReadStep(i)
  \/ markMessagesAsReadReturn

SpecStore == Init /\ [][StoreNext]_vars

\* Calls of chatService.sendMessage with any arguments.
SendNext ==
  \/ \E senderId \in SessionUsers \cup {NoUser},
        receiverId \in IdStrings(SessionUsers) \cup {NoId},
        groupId \in Groups \cup {NoGroup}, contentLength \in ContentLengths :
       sendMessageCalled(senderId, receiverId, groupId, contentLength)
  \/ \E senderActive \in BOOLEAN, receiverActive \in BOOLEAN :
       sendMessageReturns(senderActive, receiverActive)
  \/ sendMessageOutcomeTaken

SpecSend == Init /\ [][SendNext]_vars

\* Stored messages under delete requests.  deleteMessage looks at the sender
\* and the deleted flag of a message, not at whom it is addressed to; the
\* messages here are addressed to a group.
DeleteNext ==
  \/ \E senderId \in SessionUsers, groupId \in Groups :
       sendMessage(senderId, NoId, groupId, 1)
  \/ \E r \in DeleteRequests, messageId \in 1..MaxMessages,
        userId \in SessionUsers \cup {NoUser} :
       deleteMessage(r, messageId, userId)
  \/ \E r \in DeleteRequests : deleteMessageFound(r)
  \/ \E r \in DeleteRequests : softDeleteSaved(r)
  \/ \E r \in DeleteRequests : softDeleteThrows(r)
  \/ \E r \in DeleteRequests : deleteMessageOutcomeTaken(r)

SpecDelete == Init /\ [][DeleteNext]_vars

\* trackActivity from connections, their join-room events and HTTP requests
\* as the clock advances.
ActivityNext ==
  \/ \E s \in SessionSockets, u \in SessionUsers : Connect(s, u)
  \/ \E s \in SessionSockets : ConnSetOnline(s)
  \/ \E s \in SessionSockets : ConnTrackActivity(s)
  \/ \E s \in SessionSockets : ConnOnlineUsers(s)
  \/ \E s \in SessionSockets : JoinRoom(s, UserRoom(socketUserId[s]))
  \/ \E u \in SessionUsers : HttpRequest(u)
  \/ Tick

SpecActivity == Init /\ [][ActivityNext]_vars

\* Connections that emit room and typing events under the timeout sweep.
TypingNext ==
  \/ \E s \in SessionSockets, u \in SessionUsers : Connect(s, u)
  \/ \E s \in SessionSockets : ConnSetOnline(s)
  \/ \E s \in SessionSockets : ConnTrackActivity(s)
  \/ \E s \in SessionSockets : ConnOnlineUsers(s)
  \/ \E s \in SessionSockets, u \in SessionUsers : JoinRoom(s, UserRoom(u))
  \/ \E s \in SessionSockets, u \in SessionUsers : LeaveRoom(s, UserRoom(u))
  \/ \E s \in SessionSockets, u \in SessionUsers : handleTypingStart(s, u)
  \/ \E s \in SessionSockets, u \in SessionUsers : handleTypingStop(s, u)
  \/ Tick
  \/ SweepStart
  \/ \E i \in 1..MaxTime : SweepTimeoutSaved(i)
  \/ \E i \in 1..MaxTime : SweepTimeoutThrows(i)

SpecTyping == Init /\ [][TypingNext]_vars

\* Connected users, stored one-to-one messages, history fetches and delivery
\* confirmations.
DeliverNext ==
  \/ \E s \in Sockets, u \in SessionUsers : Connect(s, u)
  \/ \E s \in Sockets : ConnSetOnline(s)
  \/ \E s \in Sockets : ConnTrackActivity(s)
  \/ \E s \in Sockets : ConnOnlineUsers(s)
  \/ \E senderId \in SessionUsers, receiverId \in {toString(u) : u \in SessionUsers} :
       sendMessage(senderId, receiverId, NoGroup, 1)
  \/ \E userId \in SessionUsers, otherUserId \in SessionUsers :
       getChatHistory(userId, otherUserId)
  \/ \E i \in 1..MaxMessages : markMessagesAsDeliveredStep(i)
  \/ markMessagesAsDeliveredReturn
  \/ \E s \in Sockets, messageId \in 1..MaxMessages, senderId \in SessionUsers :
       handleMessageDelivered(s, messageId, senderId)

SpecDeliver == Init /\ [][DeliverNext]_vars

\* ------------------------------------------------------------ claims C2-C5
RegisteredIds(u) == {s \in DOMAIN connectedUsers : connectedUsers[s] = u}

SocketRegistered(s) ==
  \/ MapHas(connectedUsers, s)
  \/ MapHas(socketUsers, s)
  \/ \E u \in DOMAIN userSockets : s \in userSockets[u]

\* C2: a socket whose transport has closed and whose handleConnection has
\* ended (so that no handler of it is still to run) is absent from
\* connectedUsers, userSockets and socketUsers.
C2_NoLeakAfterClose ==
  \A s \in Sockets :
    (transport[s] = "closed" /\ connPc[s] \in {"done", "failed"}
       /\ discPc[s] \in {"idle", "done"})
      => ~SocketRegistered(s)

\* C3: a user-offline broadcast for user u is emitted only at a moment when
\* u has no registered connection.
C3_OfflineOnlyWhenUnregistered ==
  [][\A u \in Users :
       offlineEmitted'[u] # offlineEmitted[u] => ~MapHas(userSockets, u)]_vars

C5_OnlineIffNonEmpty ==
  \A u \in Users :
    /\ MapHas(userSockets, u) <=> RegisteredIds(u) # {}
    /\ MapHas(userSockets, u) => userSockets[u] # {}

\* The last connection of a user has been removed.
C5_Witness ==
  \E u \in Users :
    /\ emptyTransitions[u] >= 1
    /\ ~MapHas(userSockets, u)
    /\ RegisteredIds(u) = {}

\* -------------------------------------------------------- claims C1, C9, C10
\* The answer the middleware chain gives to a request of u made now.
ChainAnswer(u) ==
  validateSession(trackActivity(activeSessions, u, NoSocket, now),
                  [dbLastActivityAt EXCEPT ![u] = now], u, now)

SessionActive(u) ==
  checkSessionStatus(activeSessions, dbLastActivityAt, u, now).isActive

\* C1: once handleSessionTimeout has run for a user, and until a PIN
\* re-entry succeeds, a request of that user on a route behind authenticate
\* and validateSession is answered SESSION_TIMEOUT, and no step makes the
\* user's session active again.
C1_RejectedUntilReauth ==
  /\ [](\A u \in Users : timedOut[u] => ChainAnswer(u) = "SESSION_TIMEOUT")
  /\ [][\A u \in Users :
         (timedOut[u] /\ timedOut'[u]) => (SessionActive(u)' => SessionActive(u))]_vars

\* C9: a run of checkSessionTimeouts ends only after every user of its list
\* of timed-out users has been notified and handed to handleSessionTimeout.
C9_SweepReachesWholeBatch ==
  [][\A i \in 1..Len(sweepRuns) :
       sweepRuns' = RemoveRun(sweepRuns, i)
         => sweepRuns[i].reached = sweepRuns[i].batch]_vars

Connected(u) ==
  \E s \in Sockets :
    socketUserId[s] = u /\ transport[s] = "open" /\ connPc[s] = "done"

InWarningWindow(u) ==
  /\ SessionHas(activeSessions, u)
  /\ NeedsWarning(SessionGet(activeSessions, u), now)

WarnedOnce(u) ==
  \E s \in Sockets :
    /\ socketUserId[s] = u
    /\ warnRecv'[s] = warnRecv[s] + 1
    /\ \A t \in Sockets \ {s} : socketUserId[t] = u => warnRecv'[t] = warnRecv[t]

\* C10: the run of the sweep that finds a connected user's inactivity at
\* TimeoutMinutes - 1 (the one run of that minute) delivers exactly one
\* session-warning to that user.
C10_ExactlyOneWarning ==
  [][(sweepDue /\ ~sweepDue')
       => \A u \in Users : (Connected(u) /\ InWarningWindow(u)) => WarnedOnce(u)]_vars

\* ---------------------------------------------------------- claims C6, C7
\* C6: a message-received event of a one-to-one message is received only by
\* sockets authenticated as the message's sender or as its receiver, whatever
\* rooms the other sockets have joined or left.
C6_OnlyIntendedUsersReceive ==
  \A s \in Sockets : \A e \in msgRecv[s] :
    socketUserId[s] \in {messages[e[1]].senderId, messages[e[1]].receiverId}

\* handleSendMessage on socket s ends in this step without message-received.
SendFails(s) ==
  /\ sendOp[s].pc # "idle"
  /\ sendOp'[s].pc = "idle"
  /\ sendOp'[s].emitted # "message-received"

\* C7: a message-received event is only emitted for a message that is stored;
\* a run of handleSendMessage whose sendMessage fails emits no
\* message-received, leaves an error event on the sending socket, and has
\* stored no message.
C7_SaveIsDurabilityPoint ==
  /\ [][\A s \in Sockets : \A e \in msgRecv'[s] \ msgRecv[s] :
          e[1] \in 1..Len(messages) /\ messages[e[1]].status = "sent"]_vars
  /\ [][\A s \in Sockets :
          SendFails(s) =>
            /\ msgRecv' = msgRecv
            /\ transport[s] = "open" => sendOp'[s].emitted = "error"
            /\ sendOp[s].messageId = 0
            /\ messages' = messages]_vars

\* ------------------------------------------------------------------ claim C8
StatusRank(status) ==
  CASE status = "sent" -> 0
    [] status = "delivered" -> 1
    [] status = "read" -> 2

\* C8: no step moves the delivery state of a stored message backward along
\* sent -> delivered -> read, under every interleaving of the document
\* updates of markMessagesAsDelivered and of markMessagesAsRead.
C8_StatusMovesForward ==
  [][\A i \in 1..Len(messages) :
       StatusRank(messages'[i].status) >= StatusRank(messages[i].status)]_vars

\* markMessagesAsDelivered and markMessagesAsRead are in progress on the same
\* conversation, the update to delivered has visited a message that the
\* update to read had already set to read, and has left it read.
C8_Witness ==
  /\ deliveredOp # NoUpdate
  /\ readOp # NoUpdate
  /\ deliveredOp.senderId = readOp.senderId
  /\ deliveredOp.receiverId = readOp.receiverId
  /\ readOp.modifiedCount > 0
  /\ deliveredOp.modifiedCount = 0
  /\ \E i \in ConversationIds(messages, readOp.senderId, readOp.receiverId) :
       /\ messages[i].status = "read"
       /\ i \notin deliveredOp.todo
       /\ i \notin readOp.todo

\* ------------------------------------------------------------------ claim C11
\* A step of checkSessionTimeouts removes the session record of u, which was
\* at or beyond the timeout.
SweepExpires(u) ==
  /\ sweepVars' # sweepVars
  /\ SessionHas(activeSessions, u)
  /\ IsTimedOut(SessionGet(activeSessions, u), now)
  /\ ~SessionHas(activeSessions', u)

\* A session-timeout event reaches a socket only in a step that removes the
\* session record of the socket's user, and then once.
TimeoutNotifiedOncePerExpiry ==
  \A s \in Sockets :
    timeoutRecv'[s] # timeoutRecv[s]
      => /\ timeoutRecv'[s] = timeoutRecv[s] + 1
         /\ SessionHas(activeSessions, socketUserId[s])
         /\ ~SessionHas(activeSessions', socketUserId[s])

\* The step of the sweep that expires the session of a connected user
\* delivers session-timeout to a socket of that user.
ExpiryNotifiesConnected ==
  \A u \in Users :
    (Connected(u) /\ SweepExpires(u))
      => \E s \in Sockets :
           socketUserId[s] = u /\ timeoutRecv'[s] = timeoutRecv[s] + 1

\* C11: each expiry of a connected user's session by the sweep delivers
\* exactly one session-timeout event to that user, and no session-timeout
\* event is delivered for a session that has already been expired, also when
\* runs of the sweep overlap.
C11_ExactlyOneTimeoutPerExpiry ==
  [][TimeoutNotifiedOncePerExpiry /\ ExpiryNotifiesConnected]_vars

\* ------------------------------------------------------------------ claim C12
SessionStatus(u) == checkSessionStatus(activeSessions, dbLastActivityAt, u, now)

\* C12: in the minute of a user's latest trackActivity checkSessionStatus
\* reports the session active; once TimeoutMinutes + 1 minutes have passed
\* since it, checkSessionStatus reports isActive = false and
\* requiresPinEntry = true, from the in-memory record or, when the sweep has
\* removed it, from the persisted lastActivityAt.
C12_ActiveThenTimedOut ==
  \A u \in Users :
    lastTracked[u] # NoTime =>
      /\ now = lastTracked[u] => SessionStatus(u).isActive
      /\ now - lastTracked[u] >= TimeoutMinutes + 1
           => ~SessionStatus(u).isActive /\ SessionStatus(u).requiresPinEntry

\* TimeoutMinutes + 1 minutes after their latest activity, one user's record
\* has been removed by the sweep and another user's record is still there.
C12_Witness ==
  \E u, v \in Users :
    /\ lastTracked[u] # NoTime /\ now - lastTracked[u] >= TimeoutMinutes + 1
    /\ timedOut[u] /\ ~SessionHas(activeSessions, u)
    /\ lastTracked[v] # NoTime /\ now - lastTracked[v] >= TimeoutMinutes + 1
    /\ SessionHas(activeSessions, v)

\* ------------------------------------------------------------------ claim C13
\* C13: no step changes the stored status of a user to offline while the
\* user has a registered connection (no user-status event is in play, so no
\* explicit override is in effect).
C13_OfflineOnlyWhenNoConnection ==
  [][\A u \in Users :
       (dbStatus'[u] = "offline" /\ dbStatus[u] # "offline")
         => ~MapHas(userSockets', u)]_vars

\* ------------------------------------------------------------------ claim C14
\* A step of checkSessionTimeouts (its start, or a handleSessionTimeout of one
\* of its runs returning or throwing).
SweepStep == sweepVars' # sweepVars /\ now' = now

\* The users whose handleSessionTimeout is under way in some run.
Expiring(runs) == {Head(runs[i].queue).userId : i \in 1..Len(runs)}

\* C14: a step of the sweep leaves the connection registry and the sockets as
\* they are; the user whose handleSessionTimeout it starts has no in-memory
\* session record afterwards; and the only change it makes to a stored status
\* is to set the status of a user being expired to away.
C14_ExpiryFrame ==
  [][SweepStep =>
       /\ regVars' = regVars
       /\ sockVars' = sockVars
       /\ \A u \in Users :
            (SessionHas(activeSessions, u) /\ ~SessionHas(activeSessions', u))
              => u \in Expiring(sweepRuns')
       /\ \A u \in Expiring(sweepRuns') \ Expiring(sweepRuns) :
            ~SessionHas(activeSessions', u)
       /\ \A u \in Users :
            dbStatus'[u] # dbStatus[u]
              => u \in Expiring(sweepRuns) /\ dbStatus'[u] = "away"]_vars

\* A user's session has been expired (record gone, status away) and a socket
\* of the user is still registered and open.
C14_Witness ==
  \E u \in Users :
    /\ timedOut[u]
    /\ ~SessionHas(activeSessions, u)
    /\ dbStatus[u] = "away"
    /\ MapHas(userSockets, u)
    /\ \E s \in userSockets[u] : transport[s] = "open" /\ connPc[s] = "done"

\* ----------------------------------------------------------- claims C15, C16
\* The call names both a receiver and a group, or neither.
BothOrNeither(call) ==
  \/ call.receiverId # NoId /\ call.groupId # NoGroup
  \/ call.receiverId = NoId /\ call.groupId = NoGroup

\* The step ends the call of sendMessage that is under way.
SendCallEnds == sendCall.pc = "called" /\ sendCall'.pc # "called"

\* C15: a call of sendMessage that names both receiverId and groupId, or
\* neither, is rejected, stores no message and emits no event, whatever its
\* content and whatever the lookups of sender and receiver give; the schema of
\* POST /api/chat/send rejects the same bodies; every message that is stored
\* has exactly one of receiver and group.
C15_BothOrNeitherRejected ==
  [][/\ (SendCallEnds /\ BothOrNeither(sendCall)) =>
          /\ sendCall'.pc = "rejected"
          /\ messages' = messages
          /\ msgRecv' = msgRecv
          /\ deliveredRecv' = deliveredRecv
          /\ ~schemasSendMessage(sendCall.receiverId, sendCall.groupId,
                                 sendCall.contentLength)
     /\ Len(messages') > Len(messages) =>
          (messages'[Len(messages')].receiverId = NoUser)
             # (messages'[Len(messages')].groupId = NoGroup)]_vars

\* A call that was valid but for naming receiver and group together has been
\* rejected, and so has one naming neither.
C15_Witness ==
  /\ sendCall.pc = "rejected"
  /\ sendCall.senderId # NoUser
  /\ sendCall.contentLength = 1
  /\ sendCall.receiverId # NoId
  /\ sendCall.receiverId # toString(sendCall.senderId)
  /\ sendCall.groupId # NoGroup
  /\ Len(messages) = 1
  /\ messages[1].groupId # NoGroup

\* C16: no stored one-to-one message has its sender equal to its receiver,
\* and a call of sendMessage whose receiverId names the sender is rejected and
\* stores nothing.
C16_NoSelfMessage ==
  /\ [](\A i \in 1..Len(messages) :
          messages[i].receiverId # NoUser =>
            messages[i].senderId # messages[i].receiverId)
  /\ [][(SendCallEnds /\ sendCall.senderId # NoUser
          /\ castObjectId(sendCall.receiverId) = sendCall.senderId) =>
          (sendCall'.pc = "rejected" /\ messages' = messages)]_vars

\* ----------------------------------------------------------------- claim C17
\* handleSendMessage on socket s ends in this step with its emits done.
SendCompletes(s) ==
  /\ sendOp[s].pc = "populate"
  /\ sendOp'[s].pc = "idle"
  /\ sendOp'[s].emitted = "message-received"

\* The registered connections of the user that are still open.
LiveConnections(u) ==
  {r \in Sockets : MapHas(connectedUsers, r) /\ connectedUsers[r] = u
                     /\ transport[r] = "open"}

\* C17: when a one-to-one message sent over a socket has gone through, the
\* sending connection has received the message-received echo with status sent
\* in that step, and every registered live connection of the receiver has
\* received message-received with status delivered.
C17_EchoAndLiveDelivery ==
  [][\A s \in Sockets :
       SendCompletes(s) =>
         LET id == sendOp[s].messageId
         IN /\ <<id, "sent">> \in msgRecv'[s] \ msgRecv[s]
            /\ \A r \in LiveConnections(messages[id].receiverId) :
                 <<id, "delivered">> \in msgRecv'[r]]_vars

\* ----------------------------------------------------------------- claim C18
\* getChatHistory is called in this step.
HistoryFetched == deliveredOp = NoUpdate /\ deliveredOp' # NoUpdate

\* The markMessagesAsDelivered of a getChatHistory returns in this step.
HistoryDelivered == deliveredOp # NoUpdate /\ deliveredOp' = NoUpdate

C19_DeliveryNotifiesSender ==
  [][/\ HistoryDelivered =>
          \A i \in deliveredOp.returned :
            (messages[i].receiverId = deliveredOp.receiverId
             /\ messages[i].status = "delivered") =>
              \A r \in LiveConnections(messages[i].senderId) :
                i \in deliveredRecv'[r]
     /\ \A r \in Sockets : \A i \in deliveredRecv'[r] \ deliveredRecv[r] :
          /\ i \in 1..Len(messages)
          /\ messages[i].status \in {"delivered", "read"}]_vars

\* ----------------------------------------------------------------- claim C20
\* The checks of the call of request r are made in this step.
DeleteChecked(r) == deleteCall[r].pc = "findById" /\ deleteCall'[r].pc # "findById"

\* The call of request r ends in this step, failing or succeeding.
DeleteFails(r) ==
  /\ deleteCall[r].pc # "idle"
  /\ deleteCall'[r].pc = "idle"
  /\ deleteCall'[r].result = "rejected"

DeleteSucceeds(r) ==
  /\ deleteCall[r].pc # "idle"
  /\ deleteCall'[r].pc = "idle"
  /\ deleteCall'[r].result = "deleted"

\* C20: a call of deleteMessage passes its checks exactly when the message
\* is stored, the requester is its sender and it is not soft-deleted; a call
\* by another user and a call on a deleted message fail there; only a call
\* that passed the checks succeeds, and it sets the deleted flag of that
\* message alone; a failing call leaves every stored message (deleted flag,
\* delivery state, content) as it was.
C20_DeleteOnlyBySenderOnce ==
  [][\A r \in DeleteRequests :
       LET id == deleteCall[r].messageId
           u == deleteCall[r].userId
       IN /\ DeleteChecked(r) =>
               /\ deleteCall'[r].pc = "softDelete" <=>
                    (u # NoUser /\ id \in 1..Len(messages)
                     /\ messages[id].senderId = u /\ ~messages[id].isDeleted)
               /\ deleteCall'[r].pc # "softDelete" => DeleteFails(r)
          /\ DeleteFails(r) => messages' = messages
          /\ DeleteSucceeds(r) =>
               /\ deleteCall[r].pc = "softDelete"
               /\ messages[id].senderId = u
               /\ messages' = [messages EXCEPT ![id].isDeleted = TRUE]]_vars

\* The sender has deleted a message, and a request of another user to delete
\* the same message has failed.
C20_Witness ==
  \E r1 \in DeleteRequests, r2 \in DeleteRequests :
    /\ deleteCall[r1].result = "deleted"
    /\ deleteCall[r2].result = "rejected"
    /\ deleteCall[r2].messageId = deleteCall[r1].messageId
    /\ deleteCall[r2].userId # NoUser
    /\ deleteCall[r2].userId # deleteCall[r1].userId
    /\ messages[deleteCall[r1].messageId].isDeleted
    /\ messages[deleteCall[r1].messageId].senderId = deleteCall[r1].userId

\* ----------------------------------------------------------------- claim C21
\* An event of socket s is handled in this step: the socket joins or leaves a
\* room, or its user starts or stops being shown as typing.
EventHandled(s) ==
  /\ transport[s] = "open"
  /\ handlers[s]
  /\ \/ rooms'[s] # rooms[s] /\ transport'[s] = "open"
     \/ \E r \in Sockets :
          (socketUserId[s] \in typingRecv'[r]) # (socketUserId[s] \in typingRecv[r])

\* C21: every application event handled for a connection of user U leaves
\* U's session record with lastActivity at the time of the event.
C21_EventsTrackActivity ==
  [][\A s \in Sockets :
       EventHandled(s) =>
         /\ SessionHas(activeSessions', socketUserId[s])
         /\ SessionGet(activeSessions', socketUserId[s]).lastActivity = now]_vars

\* ----------------------------------------------------------------- claim C22
\* C22: while a user's in-memory session record exists, no step lowers its
\* lastActivity, whichever caller of trackActivity writes it.
C22_LastActivityMonotonic ==
  [][\A u \in Users :
       (SessionHas(activeSessions, u) /\ SessionHas(activeSessions', u)) =>
         SessionGet(activeSessions', u).lastActivity
           >= SessionGet(activeSessions, u).lastActivity]_vars

\* A connected user's record, written at connection time, has been written
\* again later by the trackActivity of an HTTP request.
C22_Witness ==
  \E u \in Users :
    /\ MapHas(userSockets, u)
    /\ SessionHas(activeSessions, u)
    /\ SessionGet(activeSessions, u).socketId = NoSocket
    /\ SessionGet(activeSessions, u).lastActivity >= 1
    /\ SessionGet(activeSessions, u).lastActivity = now

\* ----------------------------------------------------------------- claim C23
\* C23: for every user with an in-memory session record, checkSessionStatus
\* gives isActive iff minutesInactive < timeoutMinutes, requiresPinEntry =
\* not isActive, and showWarning iff timeoutMinutes - 1 <= minutesInactive <
\* timeoutMinutes; and the same holds of the decision for every number of
\* minutes and every configured threshold of one minute or more.
C23_StatusDecision ==
  /\ \A u \in Users :
       SessionHas(activeSessions, u) =>
         LET m == now - SessionGet(activeSessions, u).lastActivity
             st == SessionStatus(u)
         IN /\ st.minutesInactive = m
            /\ st.isActive <=> m < TimeoutMinutes
            /\ st.requiresPinEntry <=> ~st.isActive
            /\ st.showWarning <=> (TimeoutMinutes - 1 <= m /\ m < TimeoutMinutes)
  /\ \A timeoutMinutes \in 1..(MaxTime + 1), m \in 0..(MaxTime + 1) :
       LET st == inMemoryStatus(m, timeoutMinutes)
       IN /\ st.isActive <=> m < timeoutMinutes
          /\ st.requiresPinEntry <=> ~st.isActive
          /\ st.showWarning <=> (timeoutMinutes - 1 <= m /\ m < timeoutMinutes)

\* One user's record is in its last minute before the timeout and gets the
\* warning, another user's record is past the timeout and has not been swept.
C23_Witness ==
  \E u \in Users, v \in Users :
    /\ SessionHas(activeSessions, u)
    /\ now - SessionGet(activeSessions, u).lastActivity = TimeoutMinutes - 1
    /\ SessionStatus(u).showWarning
    /\ SessionHas(activeSessions, v)
    /\ now - SessionGet(activeSessions, v).lastActivity >= TimeoutMinutes
    /\ SessionStatus(v).requiresPinEntry

\* ----------------------------------------------------------------- claim C24
\* The decision of a checkSessionStatus answer.
Decision(st) ==
  [isActive |-> st.isActive, requiresPinEntry |-> st.requiresPinEntry,
   showWarning |-> st.showWarning]

\* C24: wherever a user has both an in-memory record and a persisted
\* lastActivityAt, the decision checkSessionStatus computes from the persisted
\* record (the path it takes when there is no in-memory record) equals the
\* decision it computes from the in-memory record.
C24_PersistedDecisionAgrees ==
  \A u \in Users :
    SessionHas(activeSessions, u) =>
      Decision(checkSessionStatus(<<>>, dbLastActivityAt, u, now))
        = Decision(checkSessionStatus(activeSessions, dbLastActivityAt, u, now))

\* ----------------------------------------------------------------- claim C25
\* handleSendMessage on socket s ends in this step, its message being stored.
StoredSendEnds(s) ==
  /\ sendOp[s].pc = "populate"
  /\ sendOp[s].messageId \in 1..Len(messages)
  /\ sendOp'[s].pc = "idle"

\* C25: a send whose message has been stored by message.save() is never
\* reported to its caller as an error, whatever happens in the steps after
\* the save.
C25_StoredSendReportsSuccess ==
  [][\A s \in Sockets : StoredSendEnds(s) => sendOp'[s].emitted # "error"]_vars

\* ------------------------------------------------------ user-status event
\* The status values a user-status event carries in the model: the three
\* valid ones, one that is not valid, and "none" for a missing status.
validStatuses == {"online", "offline", "away"}
StatusInputs == validStatuses \cup {"busy", "none"}

updateUserStatusValid_anyStatus(status) == TRUE
\* chatService.updateUserStatus accepts the status.
updateUserStatusValid(status) == status \in validStatuses

\* socket.broadcast.emit: every connected socket but the sending one.
BroadcastTargets(s) == {r \in Sockets \ {s} : transport[r] = "open"}

\* handleUserStatus(socket, {status}) to its first suspension: a missing
\* status emits error and returns; otherwise trackActivity, then
\* chatService.updateUserStatus is called.
handleUserStatus(s, status) ==
  /\ transport[s] = "open"
  /\ handlers[s]
  /\ statusOp[s].pc = "idle"
  /\ IF status = "none"
     THEN /\ statusOp' = [statusOp EXCEPT ![s] = IdleStatus("error")]
          /\ UNCHANGED <<activeSessions, dbLastActivityAt, lastTracked>>
     ELSE /\ activeSessions' = trackActivity(activeSessions, socketUserId[s], s, now)
          /\ dbLastActivityAt' = [dbLastActivityAt EXCEPT ![socketUserId[s]] = now]
          /\ lastTracked' = [lastTracked EXCEPT ![socketUserId[s]] = now]
          /\ statusOp' = [statusOp EXCEPT ![s] =
               [pc |-> "updateUserStatus", status |-> status, emitted |-> "none"]]
  /\ UNCHANGED <<authVars, cleanVars, regVars, sockVars, presVars, dbStatus, now, sweepVars, timedOut,
                 messages, sendOp, msgRecv, deliveredOp, readOp, sendCall, deleteCall,
                 deliveredRecv, typingRecv, statusRecv>>

\* updateUserStatus has saved the user (setOnline also sets lastActivityAt)
\* and returned: user-status goes to every other connected socket.
UserStatusUpdated(s) ==
  /\ statusOp[s].pc = "updateUserStatus"
  /\ updateUserStatusValid(statusOp[s].status)
  /\ dbStatus' = [dbStatus EXCEPT ![socketUserId[s]] = statusOp[s].status]
  /\ dbLastActivityAt' = [dbLastActivityAt EXCEPT ![socketUserId[s]] =
       IF statusOp[s].status = "online" THEN now ELSE @]
  /\ statusRecv' = [r \in Sockets |->
       IF r \in BroadcastTargets(s)
       THEN <<socketUserId[s], statusOp[s].status>> ELSE statusRecv[r]]
  /\ statusOp' = [statusOp EXCEPT ![s] = IdleStatus("user-status")]
  /\ UNCHANGED <<authVars, cleanVars, regVars, sockVars, presVars, activeSessions, lastTracked, now,
                 sweepVars, timedOut, messages, sendOp, msgRecv, deliveredOp, readOp,
                 sendCall, deleteCall, deliveredRecv, typingRecv>>

\* updateUserStatus throws (a status that is not valid, or the user lookup
\* failing); the catch of handleUserStatus emits error.
UserStatusThrows(s) ==
  /\ statusOp[s].pc = "updateUserStatus"
  /\ statusOp' = [statusOp EXCEPT ![s] = IdleStatus(EmittedTo(s, "error"))]
  /\ UNCHANGED <<authVars, cleanVars, regVars, sockVars, presVars, dbUserVars, activeSessions, lastTracked,
                 now, sweepVars, timedOut, messages, sendOp, msgRecv, deliveredOp,
                 readOp, sendCall, deleteCall, deliveredRecv, typingRecv, statusRecv>>

\* Connections, disconnections and the user-status events of the first
\* sockets.
StatusNext ==
  \/ \E s \in Sockets, u \in SessionUsers : Connect(s, u)
  \/ \E s \in Sockets : ConnSetOnline(s)
  \/ \E s \in Sockets : ConnTrackActivity(s)
  \/ \E s \in Sockets : ConnOnlineUsers(s)
  \/ \E s \in Sockets \ SessionSockets : Disconnect(s)
  \/ \E s \in SessionSockets, status \in StatusInputs : handleUserStatus(s, status)
  \/ \E s \in SessionSockets : UserStatusUpdated(s)
  \/ \E s \in SessionSockets : UserStatusThrows(s)

SpecStatus == Init /\ [][StatusNext]_vars

\* ----------------------------------------------------------------- claim C26
\* handleUserStatus on socket s ends in this step.
StatusEnds(s) == statusOp[s].pc = "updateUserStatus" /\ statusOp'[s].pc = "idle"

\* handleUserStatus on socket s takes a step in which it emits error.
StatusRefused(s) ==
  /\ statusOp'[s] # statusOp[s]
  /\ statusOp'[s].pc = "idle"
  /\ statusOp'[s].emitted # "user-status"

getOnlineUsers(excludeId) == {v \in Users \ {excludeId} : dbStatus[v] = "online"}

\* The users other than u who have a registered connection.
LiveUsersBut(u) == {v \in Users \ {u} : MapHas(userSockets, v)}

\* C27: user-online is broadcast once for each time a user's connection set
\* goes from empty to non-empty (so no more often than the set has become
\* empty, plus one), and the online-users snapshot a new connection receives
\* lists the other users who have live connections.
C27_OnlineOncePerFirstConnection ==
  /\ [](\A u \in Users : onlineEmitted[u] <= emptyTransitions[u] + 1)
  /\ [][\A s \in Sockets :
          (connPc[s] = "onlineUsers" /\ connPc'[s] = "done") =>
            getOnlineUsers(socketUserId[s]) = LiveUsersBut(socketUserId[s])]_vars

\* ----------------------------------------------------------------- claim C28
\* C28: no socket receives message-received twice for one message, whatever
\* rooms the sockets have joined: a socket never holds both the copy sent to
\* the sending socket (status sent) and the copy sent to the receiver's room
\* (status delivered) of the same message.
C28_AtMostOncePerSocket ==
  \A s \in Sockets : \A e \in msgRecv[s] : \A f \in msgRecv[s] :
    e[1] = f[1] => e = f

\* ----------------------------------------------------------------- claim C29
\* The connection registry and the session table, as one value.
Registry ==
  [connectedUsers |-> connectedUsers, userSockets |-> userSockets,
   socketUsers |-> socketUsers, activeSessions |-> activeSessions]

\* removeUserConnection(userId, socketId) as a function of the registry.
RegistryAfterRemove(reg, userId, socketId) ==
  [connectedUsers |-> MapDelete(reg.connectedUsers, socketId),
   userSockets |-> userSocketsAfterRemove(reg.userSockets, userId, socketId),
   socketUsers |-> MapDelete(reg.socketUsers, socketId),
   activeSessions |-> removeSocketId(reg.activeSessions, userId)]

\* The 'disconnect' listener of socket s runs removeUserConnection in this step.
Removes(s) == transport[s] = "open" /\ handlers[s] /\ transport'[s] = "closed"

\* C29: removeUserConnection called a second time for the same user and
\* socket id leaves connectedUsers, userSockets, socketUsers and the session
\* record as the first call left them, in every state and for every user
\* and socket id, and after every removal handleDisconnection performs.
C29_RemoveIdempotent ==
  /\ [](\A u \in Users, s \in Sockets :
         RegistryAfterRemove(RegistryAfterRemove(Registry, u, s), u, s)
           = RegistryAfterRemove(Registry, u, s))
  /\ [][\A s \in Sockets :
          Removes(s) =>
            /\ Registry' = RegistryAfterRemove(Registry, socketUserId[s], s)
            /\ RegistryAfterRemove(Registry', socketUserId[s], s) = Registry']_vars

\* A connection of a user with a session record and another connection has
\* been removed, and removing it again changes nothing.
C29_Witness ==
  \E s \in Sockets :
    /\ transport[s] = "closed"
    /\ discPc[s] = "done"
    /\ MapHas(userSockets, socketUserId[s])
    /\ SessionHas(activeSessions, socketUserId[s])
    /\ SessionGet(activeSessions, socketUserId[s]).socketId = NoSocket
    /\ RegistryAfterRemove(Registry, socketUserId[s], s) = Registry

\* ------------------------------------------- session service, called by id
\* An id no user document has (or whose user is deactivated): User.findById
\* gives no usable user for it.
MissingUser == NumUsers + 1
AccountIds == SessionUsers \cup {MissingUser}

\* sessionService.trackActivity(userId): the in-memory record is set first;
\* user.updateActivity() runs only for a user that is found and active.
trackActivityCalled(userId) ==
  /\ activeSessions' = trackActivity(activeSessions, userId, NoSocket, now)
  /\ IF userId \in Users
     THEN /\ dbLastActivityAt' = [dbLastActivityAt EXCEPT ![userId] = now]
          /\ lastTracked' = [lastTracked EXCEPT ![userId] = now]
     ELSE UNCHANGED <<dbLastActivityAt, lastTracked>>
  /\ UNCHANGED <<regVars, sockVars, presVars, dbStatus, now, sweepVars, timedOut,
                 msgVars, authVars, cleanVars>>

\* sessionService.handleSessionTimeout(userId): the record is deleted; the
\* status becomes 'away' only for a user that is found and active.
handleSessionTimeoutCalled(userId) ==
  /\ activeSessions' = SessionDelete(activeSessions, userId)
  /\ IF userId \in Users
     THEN /\ dbStatus' = [dbStatus EXCEPT ![userId] = handleSessionTimeoutStatus(@)]
          /\ timedOut' = [timedOut EXCEPT ![userId] = TRUE]
     ELSE UNCHANGED <<dbStatus, timedOut>>
  /\ UNCHANGED <<regVars, sockVars, presVars, dbLastActivityAt, now, sweepVars,
                 msgVars, authVars, cleanVars, lastTracked>>

\* sessionService.endSession(userId): the record is deleted; setOffline runs
\* only for a user that is found and active.
endSessionCalled(userId) ==
  /\ activeSessions' = SessionDelete(activeSessions, userId)
  /\ IF userId \in Users
     THEN dbStatus' = [dbStatus EXCEPT ![userId] = "offline"]
     ELSE UNCHANGED dbStatus
  /\ UNCHANGED <<regVars, sockVars, presVars, dbLastActivityAt, now, sweepVars,
                 timedOut, msgVars, authVars, cleanVars, lastTracked>>

\* The session service called with the ids of users and with an id that has
\* no account.
AccountNext ==
  \/ \E userId \in AccountIds : trackActivityCalled(userId)
  \/ \E userId \in AccountIds : handleSessionTimeoutCalled(userId)
  \/ \E userId \in AccountIds : endSessionCalled(userId)
  \/ Tick

SpecAccount == Init /\ [][AccountNext]_vars

\* ----------------------------------------------------------------- claim C30
\* C30: whatever trackActivity, handleSessionTimeout and endSession calls
\* were made for an id that has no usable account, checkSessionStatus reports
\* that id as isActive = false with requiresPinEntry = true.
C30_MissingUserNeverActive ==
  LET st == checkSessionStatus(activeSessions, dbLastActivityAt, MissingUser, now) IN
    ~st.isActive /\ st.requiresPinEntry

\* -------------------------------------------- login and verify-pin requests
\* handleFailedPinAttempt: maxRetries, retryWindowMinutes and the minutes of
\* the lock.
maxRetries == 5
retryWindowMinutes == 15
lockMinutes == 30
\* The clock of the specifications with PIN attempts runs this far, and the
\* stored retry count is followed this far.
MaxPinTime == 32
MaxRetryCount == 6

\* handleFailedPinAttempt, the document after it: the count starts again when
\* the retry window is over, the window starts with the first attempt, and
\* the fifth attempt sets the lock.
handleFailedPinAttempt(sec, t) ==
  LET s1 == IF sec.pinRetryWindow # NoTime /\ t > sec.pinRetryWindow + retryWindowMinutes
            THEN [sec EXCEPT !.pinRetryCount = 0, !.pinRetryWindow = NoTime]
            ELSE sec
      s2 == IF s1.pinRetryCount = 0 THEN [s1 EXCEPT !.pinRetryWindow = t] ELSE s1
      s3 == [s2 EXCEPT !.pinRetryCount = @ + 1]
  IN IF s3.pinRetryCount >= maxRetries
     THEN [s3 EXCEPT !.isLocked = TRUE, !.lockedUntil = t + lockMinutes]
     ELSE s3

\* What handleFailedPinAttempt returns: this.security.isLocked.
handleFailedPinAttemptReturns(sec, t) == handleFailedPinAttempt(sec, t).isLocked

\* document.save(): the paths whose value the request changed are written,
\* the others keep what the collection holds.
SaveModified(stored, loaded, changed) ==
  [f \in DOMAIN stored |-> IF changed[f] # loaded[f] THEN changed[f] ELSE stored[f]]

\* The failed attempts answered since the last successful one, after one
\* more at minute t: they are counted within the retry window of the first.
FailedPinsAfter(fp, t) ==
  IF fp.n = 0 \/ t > fp.first + retryWindowMinutes
  THEN [n |-> 1, first |-> t]
  ELSE [n |-> IF fp.n < maxRetries THEN fp.n + 1 ELSE fp.n, first |-> fp.first]

\* A login (kind "login") or verify-pin (kind "verifyPin") request arrives
\* and runs until the user document is loaded and the lock is looked at.
\* verify-pin is behind authenticate, which rejects a locked account and
\* otherwise calls trackActivity.
PinRequested(r, kind, u, pinValid) ==
  /\ pinOp[r].pc = "idle"
  /\ kind = "verifyPin" =>
       \E token \in issuedTokens : token[1] = u /\ verifyAccessToken(token)
  /\ IF isAccountLocked(security[u], now)
     THEN /\ pinOp' = [pinOp EXCEPT ![r] =
               [NoPin EXCEPT !.pc = "done", !.kind = kind, !.userId = u,
                             !.pinValid = pinValid, !.result = "locked"]]
          /\ UNCHANGED <<activeSessions, dbLastActivityAt, lastTracked>>
     ELSE /\ pinOp' = [pinOp EXCEPT ![r] =
               [pc |-> "comparePin", kind |-> kind, userId |-> u,
                pinValid |-> pinValid, user |-> security[u],
                tokenVersion |-> refreshTokenVersion[u], result |-> "none"]]
          /\ IF kind = "verifyPin"
             THEN /\ activeSessions' = trackActivity(activeSessions, u, NoSocket, now)
                  /\ dbLastActivityAt' = [dbLastActivityAt EXCEPT ![u] = now]
                  /\ lastTracked' = [lastTracked EXCEPT ![u] = now]
             ELSE UNCHANGED <<activeSessions, dbLastActivityAt, lastTracked>>
  /\ UNCHANGED <<cleanVars, regVars, sockVars, presVars, dbStatus, now, sweepVars, timedOut,
                 msgVars, security, refreshTokenVersion, issuedTokens, logoutOp,
                 forceLogoutRecv, failedPins>>

\* comparePin says no: handleFailedPinAttempt changes the loaded document and
\* saves it; the request is answered with an error.
PinRejected(r) ==
  /\ pinOp[r].pc = "comparePin"
  /\ ~pinOp[r].pinValid
  /\ handleFailedPinAttempt(pinOp[r].user, now).pinRetryCount <= MaxRetryCount
  /\ LET u == pinOp[r].userId
         changed == handleFailedPinAttempt(pinOp[r].user, now)
     IN /\ security' = [security EXCEPT ![u] = SaveModified(@, pinOp[r].user, changed)]
        /\ failedPins' = [failedPins EXCEPT ![u] = FailedPinsAfter(@, now)]
        /\ pinOp' = [pinOp EXCEPT ![r].pc = "done", ![r].user = changed,
                                  ![r].result =
                                    IF handleFailedPinAttemptReturns(pinOp[r].user, now)
                                    THEN "lockedNow" ELSE "invalid"]
  /\ UNCHANGED <<cleanVars, regVars, sockVars, presVars, dbUserVars, activeSessions, now,
                 sweepVars, timedOut, msgVars, lastTracked, refreshTokenVersion,
                 issuedTokens, logoutOp, forceLogoutRecv>>

\* comparePin says yes: resetPinRetries, the activity update, new tokens
\* from the loaded document; login sets the user online, the verify-pin
\* controller calls reactivateSession (trackActivity and setOnline).
PinAccepted(r) ==
  /\ pinOp[r].pc = "comparePin"
  /\ pinOp[r].pinValid
  /\ LET u == pinOp[r].userId IN
       /\ security' = [security EXCEPT ![u] = SaveModified(@, pinOp[r].user, NoSecurity)]
       /\ failedPins' = [failedPins EXCEPT ![u] = [n |-> 0, first |-> NoTime]]
       /\ issuedTokens' = issuedTokens \cup {<<u, pinOp[r].tokenVersion>>}
       /\ dbLastActivityAt' = [dbLastActivityAt EXCEPT ![u] = now]
       /\ dbStatus' = [dbStatus EXCEPT ![u] = "online"]
       /\ IF pinOp[r].kind = "verifyPin"
          THEN /\ activeSessions' = trackActivity(activeSessions, u, NoSocket, now)
               /\ lastTracked' = [lastTracked EXCEPT ![u] = now]
               /\ timedOut' = [timedOut EXCEPT ![u] = FALSE]
          ELSE UNCHANGED <<activeSessions, lastTracked, timedOut>>
       /\ pinOp' = [pinOp EXCEPT ![r].pc = "done", ![r].user = NoSecurity,
                                 ![r].result = "success"]
  /\ UNCHANGED <<cleanVars, regVars, sockVars, presVars, now, sweepVars, msgVars,
                 refreshTokenVersion, logoutOp, forceLogoutRecv>>

\* The answer has been sent; the request slot is free again.
PinAnswered(r) ==
  /\ pinOp[r].pc = "done"
  /\ pinOp' = [pinOp EXCEPT ![r] = NoPin]
  /\ UNCHANGED <<cleanVars, regVars, sockVars, presVars, dbUserVars, activeSessions, now,
                 sweepVars, timedOut, msgVars, lastTracked, security,
                 refreshTokenVersion, issuedTokens, logoutOp, forceLogoutRecv,
                 failedPins>>

\* Minutes pass: the time in which a retry window ends, or that of a lock.
PinTick(d) ==
  /\ now + d <= MaxPinTime
  /\ now' = now + d
  /\ UNCHANGED <<regVars, sockVars, presVars, dbUserVars, activeSessions, sweepVars,
                 timedOut, msgVars, lastTracked, authVars, cleanVars>>

\* Login and verify-pin requests of one user, two at a time.
PinNext ==
  \/ \E r \in PinRequests, kind \in {"login", "verifyPin"}, pinValid \in BOOLEAN :
       PinRequested(r, kind, 1, pinValid)
  \/ \E r \in PinRequests : PinRejected(r)
  \/ \E r \in PinRequests : PinAccepted(r)
  \/ \E r \in PinRequests : PinAnswered(r)
  \/ \E d \in {retryWindowMinutes + 1, lockMinutes} : PinTick(d)

SpecPin == Init /\ [][PinNext]_vars

\* ----------------------------------------------------------------- claim C31
\* Request r is a verify-pin request answered with success in this step.
PinReentrySucceeds(r) ==
  /\ pinOp[r].pc = "comparePin"
  /\ pinOp[r].kind = "verifyPin"
  /\ pinOp'[r].result = "success"

\* Request r is a verify-pin request with a wrong PIN taking a step.
PinReentryFailing(r) ==
  /\ pinOp'[r] # pinOp[r]
  /\ pinOp'[r].pc # "idle"
  /\ pinOp'[r].kind = "verifyPin"
  /\ ~pinOp'[r].pinValid

\* C31: a verify-pin request with the right PIN leaves the session active
\* without a warning, the stored status online, and the retry count and the
\* lock flag cleared; a verify-pin request with a wrong PIN leaves the
\* session record as it was.
C31_PinReentryResets ==
  /\ [][\A r \in PinRequests :
          PinReentrySucceeds(r) =>
            LET u == pinOp[r].userId
                st == checkSessionStatus(activeSessions', dbLastActivityAt', u, now')
            IN /\ st.isActive /\ ~st.showWarning
               /\ dbStatus'[u] = "online"
               /\ security'[u].pinRetryCount = 0
               /\ ~security'[u].isLocked]_vars
  /\ [][\A r \in PinRequests :
          PinReentryFailing(r) => activeSessions' = activeSessions]_vars

\* ----------------------------------------------------------------- claim C32
\* maxRetries failed attempts of user u have been answered within one retry
\* window, with no successful attempt since, and the window is not over.
FiveFailedAttempts(u) ==
  /\ failedPins[u].n >= maxRetries
  /\ now <= failedPins[u].first + retryWindowMinutes

\* C32: once five failed PIN attempts have been answered within the retry
\* window with no successful one in between, the account is locked; no
\* login or verify-pin request is answered with success while the account
\* is locked; and the stored pinRetryCount never exceeds five.
C32_LockedAfterFiveFailures ==
  /\ [](\A u \in Users : FiveFailedAttempts(u) => isAccountLocked(security[u], now))
  /\ [][\A r \in PinRequests :
          (pinOp[r].pc = "comparePin" /\ pinOp'[r].result = "success") =>
            ~isAccountLocked(security[pinOp[r].userId], now)]_vars
  /\ [](\A u \in Users : security[u].pinRetryCount <= maxRetries)

\* ----------------------------------------------------------------- claim C37
\* handleFailedPinAttempt returns in this step, for request r.
FailedAttemptReturns(r) == pinOp[r].pc = "comparePin" /\ pinOp'[r].result \in {"lockedNow", "invalid"}

\* C37: handleFailedPinAttempt returns true exactly when the document it has
\* just saved is locked (isLocked set and lockedUntil in the future).
C37_ReturnsLockedIffLocked ==
  [][\A r \in PinRequests :
       FailedAttemptReturns(r) =>
         ((pinOp'[r].result = "lockedNow") <=> isAccountLocked(pinOp'[r].user, now))]_vars

\* ------------------------------------------------------------------ logout
\* The token versions followed by the model.
MaxTokenVersion == 2

\* POST /api/auth/logout arrives: authenticate (with its trackActivity), then
\* authService.logout loads the user.
logoutRequested(u) ==
  /\ logoutOp[u].pc = "idle"
  /\ refreshTokenVersion[u] < MaxTokenVersion
  /\ authenticate(u)
  /\ activeSessions' = trackActivity(activeSessions, u, NoSocket, now)
  /\ dbLastActivityAt' = [dbLastActivityAt EXCEPT ![u] = now]
  /\ lastTracked' = [lastTracked EXCEPT ![u] = now]
  /\ logoutOp' = [logoutOp EXCEPT ![u] =
       [pc |-> "invalidateTokens", tokenVersion |-> refreshTokenVersion[u],
        issuedBefore |-> {token \in issuedTokens : token[1] = u}]]
  /\ UNCHANGED <<cleanVars, regVars, sockVars, presVars, dbStatus, now, sweepVars, timedOut,
                 msgVars, security, refreshTokenVersion, issuedTokens, pinOp,
                 forceLogoutRecv, failedPins>>

\* user.invalidateTokens() has saved the loaded version plus one.
logoutInvalidated(u) ==
  /\ logoutOp[u].pc = "invalidateTokens"
  /\ refreshTokenVersion' = [refreshTokenVersion EXCEPT ![u] = logoutOp[u].tokenVersion + 1]
  /\ logoutOp' = [logoutOp EXCEPT ![u].pc = "setOffline"]
  /\ UNCHANGED <<cleanVars, regVars, sockVars, presVars, dbUserVars, activeSessions, now,
                 sweepVars, timedOut, msgVars, lastTracked, security, issuedTokens,
                 pinOp, forceLogoutRecv, failedPins>>

\* user.setOffline() has saved and authService.logout returns; the
\* controller calls sessionService.endSession, which deletes the session
\* record and starts to load the user.
logoutSetOffline(u) ==
  /\ logoutOp[u].pc = "setOffline"
  /\ dbStatus' = [dbStatus EXCEPT ![u] = "offline"]
  /\ activeSessions' = SessionDelete(activeSessions, u)
  /\ logoutOp' = [logoutOp EXCEPT ![u].pc = "endSession"]
  /\ UNCHANGED <<cleanVars, regVars, sockVars, presVars, dbLastActivityAt, now, sweepVars,
                 timedOut, msgVars, lastTracked, security, refreshTokenVersion,
                 issuedTokens, pinOp, forceLogoutRecv, failedPins>>

\* endSession has set the user offline and returned: the cookies are cleared
\* and the 200 answer is sent.
logoutEnded(u) ==
  /\ logoutOp[u].pc = "endSession"
  /\ dbStatus' = [dbStatus EXCEPT ![u] = "offline"]
  /\ logoutOp' = [logoutOp EXCEPT ![u].pc = "done"]
  /\ UNCHANGED <<cleanVars, regVars, sockVars, presVars, dbLastActivityAt, activeSessions, now,
                 sweepVars, timedOut, msgVars, lastTracked, security,
                 refreshTokenVersion, issuedTokens, pinOp, forceLogoutRecv, failedPins>>

\* The answer has been taken; the user can log out again.
logoutAnswered(u) ==
  /\ logoutOp[u].pc = "done"
  /\ logoutOp' = [logoutOp EXCEPT ![u] = NoLogout]
  /\ UNCHANGED <<cleanVars, regVars, sockVars, presVars, dbUserVars, activeSessions, now,
                 sweepVars, timedOut, msgVars, lastTracked, security,
                 refreshTokenVersion, issuedTokens, pinOp, forceLogoutRecv, failedPins>>

\* Connected users who log out, log in again and keep using their sockets.
LogoutNext ==
  \/ \E s \in SessionSockets, u \in SessionUsers : Connect(s, u)
  \/ \E s \in SessionSockets : ConnSetOnline(s)
  \/ \E s \in SessionSockets : ConnTrackActivity(s)
  \/ \E s \in SessionSockets : ConnOnlineUsers(s)
  \/ \E s \in SessionSockets : JoinRoom(s, UserRoom(socketUserId[s]))
  \/ \E u \in SessionUsers : logoutRequested(u)
  \/ \E u \in SessionUsers : logoutInvalidated(u)
  \/ \E u \in SessionUsers : logoutSetOffline(u)
  \/ \E u \in SessionUsers : logoutEnded(u)
  \/ \E u \in SessionUsers : logoutAnswered(u)
  \/ \E u \in SessionUsers : PinRequested(1, "login", u, TRUE)
  \/ PinAccepted(1)
  \/ PinAnswered(1)
  \/ Tick

SpecLogout == Init /\ [][LogoutNext]_vars

\* ----------------------------------------------------------------- claim C33
\* The logout request of user u is answered with success in this step.
LogoutCompletes(u) == logoutOp[u].pc = "endSession" /\ logoutOp'[u].pc = "done"

\* C33: when a logout of user u is answered with success, no token issued
\* to u before the logout verifies any more, and u has no in-memory session
\* record.
C33_LogoutInvalidatesAndClears ==
  [][\A u \in Users :
       LogoutCompletes(u) =>
         /\ \A token \in logoutOp[u].issuedBefore :
              token[2] # refreshTokenVersion'[u]
         /\ ~SessionHas(activeSessions', u)]_vars

\* ----------------------------------------------------------------- claim C34
\* The sweep removes the session record of user u in this step.
SweepRemoves(u) ==
  /\ SweepStep
  /\ SessionHas(activeSessions, u)
  /\ ~SessionHas(activeSessions', u)

\* C34: a session record the sweep removes has, when it is removed, been
\* inactive for the timeout or longer; a record whose activity was tracked
\* after the sweep made its list is kept, and its user's status is not set
\* to away by that sweep.
C34_SweepRemovesOnlyExpired ==
  [][\A u \in Users :
       SweepRemoves(u) => IsTimedOut(SessionGet(activeSessions, u), now)]_vars

\* ----------------------------------------------------------------- claim C35
\* The live connections of user u.
LiveSockets(u) == {s \in Sockets : socketUserId[s] = u /\ transport[s] = "open"}

\* C35: while user u has a set-up live connection and a session record, the
\* record's socketId is one of u's live connections.
C35_SessionNamesLiveSocket ==
  \A u \in Users :
    (Connected(u) /\ SessionHas(activeSessions, u)) =>
      SessionGet(activeSessions, u).socketId \in LiveSockets(u)

BothDeletesReturned(r, q) ==
  /\ deleteCall[r].pc = "idle" /\ deleteCall[r].result # "none"
  /\ deleteCall[q].pc = "idle" /\ deleteCall[q].result # "none"
  /\ deleteCall[r].messageId = deleteCall[q].messageId
  /\ deleteCall[r].userId = deleteCall[q].userId

\* C38: of two deleteMessage requests of the sender for the same message, at
\* most one returns success; the other one is rejected.
C38_OneDeleteSucceeds ==
  \A r \in DeleteRequests : \A q \in DeleteRequests \ {r} :
    BothDeletesReturned(r, q) =>
      ~(deleteCall[r].result = "deleted" /\ deleteCall[q].result = "deleted")

\* ------------------------------------------- cleanupInactiveSessions timer
\* config.session.timeoutMinutes + 5
extendedTimeoutMinutes == TimeoutMinutes + 5

\* The user ids cleanupInactiveSessions collects, in the Map's order: records
\* inactive for more than the extended timeout.
sessionsToRemove(sessions, t) ==
  LET old == SelectSeq(sessions, LAMBDA r :
               minutesInactive(r.lastActivity, t) > extendedTimeoutMinutes)
  IN [i \in 1..Len(old) |-> old[i].userId]

\* User.cleanupInactiveSessions(minutesInactive): users stored as online or
\* away whose lastActivityAt is before the cutoff are set offline.
cleanupInactiveUsers(status, lastActivityAt, minutes, t) ==
  [u \in DOMAIN status |->
     IF status[u] \in {"online", "away"} /\ lastActivityAt[u] < t - minutes
     THEN "offline"
     ELSE status[u]]

\* The interval of startCleanupTimer elapses.
CleanupTimer ==
  /\ ~cleanupDue
  /\ cleanupDue' = TRUE
  /\ UNCHANGED <<regVars, sockVars, presVars, dbUserVars, activeSessions, now,
                 sweepVars, timedOut, msgVars, lastTracked, authVars, cleanupRuns>>

\* cleanupInactiveSessions() to its first suspension: the list is made, the
\* first listed record is deleted and User.findById is awaited; with an empty
\* list the run goes on to User.cleanupInactiveSessions.
CleanupStart ==
  /\ cleanupDue
  /\ Len(cleanupRuns) < MaxCleanupRuns
  /\ cleanupDue' = FALSE
  /\ LET list == sessionsToRemove(activeSessions, now) IN
       /\ cleanupRuns' = Append(cleanupRuns, list)
       /\ activeSessions' = IF Len(list) = 0 THEN activeSessions
                            ELSE SessionDelete(activeSessions, Head(list))
  /\ UNCHANGED <<regVars, sockVars, presVars, dbUserVars, now, sweepVars, timedOut,
                 msgVars, lastTracked, authVars>>

\* The loop of run i goes on after the database update of its current user:
\* the next listed record is deleted, or the list is finished.
CleanupLoopNext(i) ==
  LET rest == Tail(cleanupRuns[i]) IN
    /\ cleanupRuns' = [cleanupRuns EXCEPT ![i] = rest]
    /\ activeSessions' = IF Len(rest) = 0 THEN activeSessions
                         ELSE SessionDelete(activeSessions, Head(rest))

\* User.findById and user.setOffline() of run i have answered.
CleanupOffline(i) ==
  /\ i \in 1..Len(cleanupRuns)
  /\ Len(cleanupRuns[i]) > 0
  /\ dbStatus' = [dbStatus EXCEPT ![Head(cleanupRuns[i])] = "offline"]
  /\ CleanupLoopNext(i)
  /\ UNCHANGED <<regVars, sockVars, presVars, dbLastActivityAt, now, sweepVars,
                 timedOut, msgVars, lastTracked, authVars, cleanupDue>>

\* The database update of run i fails: the catch inside the loop logs it and
\* the loop goes on.
CleanupOfflineFails(i) ==
  /\ i \in 1..Len(cleanupRuns)
  /\ Len(cleanupRuns[i]) > 0
  /\ CleanupLoopNext(i)
  /\ UNCHANGED <<regVars, sockVars, presVars, dbUserVars, now, sweepVars,
                 timedOut, msgVars, lastTracked, authVars, cleanupDue>>

\* User.cleanupInactiveSessions(config.session.timeoutMinutes) of run i has
\* updated the collection; the run ends.
CleanupDb(i) ==
  /\ i \in 1..Len(cleanupRuns)
  /\ Len(cleanupRuns[i]) = 0
  /\ dbStatus' = cleanupInactiveUsers(dbStatus, dbLastActivityAt, TimeoutMinutes, now)
  /\ cleanupRuns' = RemoveRun(cleanupRuns, i)
  /\ UNCHANGED <<regVars, sockVars, presVars, dbLastActivityAt, activeSessions, now,
                 sweepVars, timedOut, msgVars, lastTracked, authVars, cleanupDue>>

\* updateMany fails: User.cleanupInactiveSessions returns 0; the run ends.
CleanupDbFails(i) ==
  /\ i \in 1..Len(cleanupRuns)
  /\ Len(cleanupRuns[i]) = 0
  /\ cleanupRuns' = RemoveRun(cleanupRuns, i)
  /\ UNCHANGED <<regVars, sockVars, presVars, dbUserVars, activeSessions, now,
                 sweepVars, timedOut, msgVars, lastTracked, authVars, cleanupDue>>

\* A minute passes.
LiveTick ==
  /\ now < MaxLiveTime
  /\ now' = now + 1
  /\ UNCHANGED <<regVars, sockVars, presVars, dbUserVars, activeSessions,
                 sweepVars, timedOut, msgVars, lastTracked, authVars, cleanVars>>

\* The interval of startSessionMonitoring elapses.
SweepTimer ==
  /\ ~sweepDue
  /\ sweepDue' = TRUE
  /\ UNCHANGED <<regVars, sockVars, presVars, dbUserVars, activeSessions, now,
                 sweepRuns, warnRecv, timeoutRecv, timedOut, msgVars, lastTracked,
                 authVars, cleanVars>>

\* The last minute of activity after which the clock still passes the
\* extended timeout.
LastCheckedActivity == MaxLiveTime - (extendedTimeoutMinutes + 1)

\* The users whose requests arrive: two records make a list whose second
\* entry a failing sweep run leaves behind.
LiveUsers == {1, 2}

\* A request of u while requests still arrive.
LiveRequest(u) ==
  /\ now <= LastCheckedActivity
  /\ HttpRequest(u)

\* The session table under HTTP requests and both timers.
LiveNext ==
  \/ \E u \in LiveUsers : LiveRequest(u)
  \/ LiveTick
  \/ SweepTimer
  \/ SweepStart
  \/ \E i \in 1..MaxTime : SweepTimeoutSaved(i)
  \/ \E i \in 1..MaxTime : SweepTimeoutThrows(i)
  \/ CleanupTimer
  \/ CleanupStart
  \/ \E i \in 1..MaxCleanupRuns : CleanupOffline(i)
  \/ \E i \in 1..MaxCleanupRuns : CleanupOfflineFails(i)
  \/ \E i \in 1..MaxCleanupRuns : CleanupDb(i)
  \/ \E i \in 1..MaxCleanupRuns : CleanupDbFails(i)

\* Both setInterval timers keep firing, their callbacks run, and every
\* awaited database call answers or fails.
LiveFairness ==
  /\ WF_vars(LiveTick)
  /\ WF_vars(SweepTimer)
  /\ WF_vars(SweepStart)
  /\ WF_vars(\E i \in 1..MaxTime : SweepTimeoutSaved(i) \/ SweepTimeoutThrows(i))
  /\ WF_vars(CleanupTimer)
  /\ WF_vars(CleanupStart)
  /\ WF_vars(\E i \in 1..MaxCleanupRuns :
               \/ CleanupOffline(i) \/ CleanupOfflineFails(i)
               \/ CleanupDb(i) \/ CleanupDbFails(i))

SpecLive == Init /\ [][LiveNext]_vars /\ LiveFairness

\* ------------------------------------------------------------- claim C39
\* The record of u with lastActivity t is in the table.
RecordOf(u, t) ==
  /\ SessionHas(activeSessions, u)
  /\ SessionGet(activeSessions, u).lastActivity = t

\* C39: a session record that gets no further activity is eventually removed
\* from activeSessions, by the timeout sweep or by the cleanup timer.
C39_IdleRecordEventuallyRemoved ==
  \A u \in LiveUsers : \A t \in 0..LastCheckedActivity :
    RecordOf(u, t) ~> ~RecordOf(u, t)

\* A run of the cleanup timer has removed the record of one user after the
\* sweep removed the record of another.
C39_Witness ==
  \E u \in LiveUsers : \E v \in LiveUsers \ {u} :
    /\ timedOut[u] /\ ~SessionHas(activeSessions, u)
    /\ \E i \in 1..Len(cleanupRuns) :
         Len(cleanupRuns[i]) > 0 /\ Head(cleanupRuns[i]) = v
    /\ ~SessionHas(activeSessions, v)

\* -------------------------------------------------------- forceLogoutUser
RECURSIVE RegistryAfterRemoveAll(_, _, _)
\* The registry after the 'disconnect' listeners of the sockets in ids have
\* each run removeUserConnection(userId, socketId).
RegistryAfterRemoveAll(reg, userId, ids) ==
  IF ids = {}
  THEN reg
  ELSE LET s == CHOOSE x \in ids : TRUE IN
         RegistryAfterRemoveAll(RegistryAfterRemove(reg, userId, s), userId,
                                ids \ {s})

\* forceLogoutUser(userId): for every socket id of userSockets.get(userId)
\* that io.sockets.sockets still holds, force-logout is emitted and
\* socket.disconnect(true) is called.  The loop has no await: each
\* 'disconnect' listener runs handleDisconnection up to its
\* `await this.removeUserConnection(...)` inside the call, and all of them
\* resume, one after the other, once the loop has ended; each then reads
\* userSockets.get(userId).
forceLogoutUser(u) ==
  /\ MapHas(userSockets, u)
  /\ LET found == {s \in userSockets[u] : transport[s] = "open"}
         listening == {s \in found : handlers[s]}
         after == RegistryAfterRemoveAll(Registry, u, listening)
     IN
       /\ found # {}
       /\ forceLogoutRecv' = [s \in Sockets |->
            IF s \in found THEN forceLogoutRecv[s] + 1 ELSE forceLogoutRecv[s]]
       /\ transport' = [s \in Sockets |->
            IF s \in found THEN "closed" ELSE transport[s]]
       /\ rooms' = [s \in Sockets |-> IF s \in found THEN {} ELSE rooms[s]]
       /\ connectedUsers' = after.connectedUsers
       /\ userSockets' = after.userSockets
       /\ socketUsers' = after.socketUsers
       /\ activeSessions' = after.activeSessions
       /\ emptyTransitions' =
            [emptyTransitions EXCEPT ![u] =
               IF ~MapHas(after.userSockets, u) THEN @ + 1 ELSE @]
       /\ discPc' = [s \in Sockets |->
            IF s \in listening
            THEN IF hasOtherConnections(after.userSockets, u)
                 THEN "done" ELSE "setOffline"
            ELSE discPc[s]]
  /\ UNCHANGED <<socketUserId, connPc, handlers, onlineEmitted, offlineEmitted,
                 dbUserVars, now, sweepVars, timedOut, msgVars, lastTracked,
                 security, refreshTokenVersion, issuedTokens, pinOp, logoutOp,
                 failedPins, cleanVars>>

\* Connections of the users and forced logouts.
ForceNext ==
  \/ \E s \in Sockets, u \in SessionUsers : Connect(s, u)
  \/ \E s \in Sockets : ConnSetOnline(s)
  \/ \E s \in Sockets : ConnTrackActivity(s)
  \/ \E s \in Sockets : ConnOnlineUsers(s)
  \/ \E u \in SessionUsers : forceLogoutUser(u)
  \/ \E s \in Sockets : DiscSetOffline(s)
  \/ \E s \in Sockets : DiscEndSession(s)

SpecForce == Init /\ [][ForceNext]_vars

\* ------------------------------------------------------------- claim C40
\* The connections of u that a forceLogoutUser call has reached.
ForcedSockets(u) ==
  {s \in Sockets : socketUserId[s] = u /\ forceLogoutRecv[s] > 0}

\* No disconnect handler of a socket of u is still under way.
DisconnectHandlersCompleted(u) ==
  \A s \in Sockets :
    socketUserId[s] = u => discPc[s] \notin {"setOffline", "endSession"}

\* C40: each connection U had at a forceLogoutUser call got exactly one
\* force-logout event and is disconnected; once the disconnect handlers have
\* completed, these connections are out of the registry and there is one
\* user-offline broadcast for each time the calls emptied U's connection set.
C40_ForcedLogoutOneOffline ==
  \A u \in SessionUsers :
    /\ \A s \in ForcedSockets(u) :
         forceLogoutRecv[s] = 1 /\ transport[s] = "closed"
    /\ (ForcedSockets(u) # {} /\ DisconnectHandlersCompleted(u)) =>
         /\ \A s \in ForcedSockets(u) : ~SocketRegistered(s)
         /\ offlineEmitted[u] = emptyTransitions[u]

====
